---- MODULE Spec2Model ----
(***************************************************************************)
(* Model of the production-run lifecycle (app/api/routes/runs.py) and of   *)
(* the buffer/inventory ledger (app/api/routes/inventory.py).              *)
(*                                                                         *)
(* Every request handler runs in one request-scoped transaction (get_db in *)
(* app/api/deps.py: commit on return, rollback on exception).  A handler   *)
(* is therefore modelled as an operator from the request and the tables to *)
(* its outcome: the response (status code, error detail, id of the row in  *)
(* the body) and the tables it leaves behind, which are the tables it      *)
(* found when it raises.  The action of a handler commits its outcome.     *)
(*                                                                         *)
(* Row ids are positions in the table's sequence.  Timestamps are values   *)
(* of a logical clock, NULL is 0.  Quantities are whole multiples of the   *)
(* storage unit of the quantity_kg columns (Numeric(10, 2): 0.01 kg).      *)
(***************************************************************************)
EXTENDS Integers, Sequences, FiniteSets, TLC

VARIABLES
    flow_versions,    \* flow_versions table: id -> [status]
    runs,             \* production_runs table: sequence of rows, id = index
    step_execs,       \* run_step_executions table: set of rows
    clock,            \* datetime.now(UTC), a logical time
    script,           \* the end-to-end client: its position and what it saw
    lots,             \* lots table: id -> [lot_type]
    buffers,          \* buffers table: id -> [is_active, allowed_lot_types]
    inventory_items,  \* inventory_items table: sequence of rows, id = index
    stock_moves,      \* stock_moves table: sequence of rows, id = index
    lot_status,       \* lots.status: lot id -> status
    temperature_logs, \* temperature_logs table: sequence of rows, id = index
    audit_events,     \* audit_events table: sequence of rows, id = index
    qc_inspections,   \* qc_inspections table: sequence of rows, id = index
    probe,            \* a call of a pure function: its arguments and its result
    sessions          \* requests in flight: worker -> its open transaction

\* the tables of the QC and audit layer
qc_tables == <<lot_status, temperature_logs, audit_events, qc_inspections>>

vars == <<flow_versions, runs, step_execs, clock, script,
          lots, buffers, inventory_items, stock_moves, qc_tables, probe, sessions>>

(***************************************************************************)
(* Bounds                                                                  *)
(***************************************************************************)
\* rows the production_runs table grows to
MaxRuns == 2
\* last value of the logical clock
MaxClock == 2
\* rows the stock_moves table grows to
MaxMoves == 2
\* largest quantity of a request, in units of 0.01 kg
MaxQty == 2
\* hold/resume pairs the end-to-end client interleaves
MaxPairs == 2

\* idempotency keys of create_run requests; one more than the table holds,
\* so that a key no stored run carries always exists
Keys == 1..(MaxRuns + 1)
\* run ids a request may name; MaxRuns + 1 is never a stored run
RunIds == 1..(MaxRuns + 1)
\* idempotency keys of stock-move requests
MoveKeys == 1..(MaxMoves + 1)
Quantities == 1..MaxQty

NULL == 0

\* the last canonical step (runs.py: "if run.current_step_index >= 10")
FinalStep == 10

(***************************************************************************)
(* Responses                                                               *)
(***************************************************************************)
IsSuccess(out) == out.code \in {200, 201}
IsClientError(out) == out.code \in 400..499

(***************************************************************************)
(* Flow versions (rows the run endpoints only read)                        *)
(***************************************************************************)
\* one stored version per status; id 5 is not a stored version
SeedFlowVersions ==
    (1 :> [status |-> "DRAFT"]) @@ (2 :> [status |-> "REVIEW"]) @@
    (3 :> [status |-> "PUBLISHED"]) @@ (4 :> [status |-> "DEPRECATED"])

FlowVersionIds == 1..5

(***************************************************************************)
(* Storage-layer constraints of production_runs and run_step_executions    *)
(***************************************************************************)
RunStatus == {"IDLE", "RUNNING", "HOLD", "COMPLETED", "ABORTED", "ARCHIVED"}

\* ck_production_runs_step_index, ck_production_runs_status,
\* uq_production_runs_idempotency_key
RunsConstraintsOK(rs) ==
    /\ \A i \in DOMAIN rs :
          /\ rs[i].current_step_index >= 0
          /\ rs[i].current_step_index <= 10
          /\ rs[i].status \in RunStatus
    /\ \A i, j \in DOMAIN rs :
          rs[i].idempotency_key = rs[j].idempotency_key => i = j

\* uq_run_step_executions_run_step, ck_run_step_executions_step_index
StepExecsConstraintsOK(ses) ==
    /\ \A a, b \in ses :
          (a.run_id = b.run_id /\ a.step_index = b.step_index) => a = b
    /\ \A a \in ses : a.step_index >= 0 /\ a.step_index <= 10

\* raise: get_db rolls the session back, the tables are as the handler
\* found them
Raise(code, detail) ==
    [code |-> code, detail |-> detail, body |-> 0,
     runs |-> runs, step_execs |-> step_execs]

\* return without a write (idempotent replay)
Return(code, body) ==
    [code |-> code, detail |-> "ok", body |-> body,
     runs |-> runs, step_execs |-> step_execs]

\* db.flush() and the commit of get_db: the pending writes reach the tables
\* unless a constraint fails
Flush(code, body, new_runs, new_steps) ==
    IF RunsConstraintsOK(new_runs) /\ StepExecsConstraintsOK(new_steps)
    THEN [code |-> code, detail |-> "ok", body |-> body,
          runs |-> new_runs, step_execs |-> new_steps]
    ELSE Raise(500, "IntegrityError")

(***************************************************************************)
(* services/run_code.py                                                    *)
(***************************************************************************)
RECURSIVE MaxRunCode(_)
MaxRunCode(rs) ==
    IF rs = <<>> THEN 0
    ELSE LET m == MaxRunCode(Tail(rs))
         IN  IF Head(rs).run_code > m THEN Head(rs).run_code ELSE m

\* sequence number of RUN-YYYYMMDD-SITE-####: max of the stored codes + 1
generate_run_code(rs) == MaxRunCode(rs) + 1

(***************************************************************************)
(* Run endpoints (runs.py)                                                 *)
(***************************************************************************)
\* variant: the lookup by idempotency key finds nothing
RunsByNoKey(key) == {}

\* select(ProductionRun).where(idempotency_key == key): ids of the rows found
RunsByIdempotencyKey(key) ==
    {i \in DOMAIN runs : runs[i].idempotency_key = key}

\* variant: only a DRAFT version is refused
VersionIsDraft(flow_version) == flow_version.status = "DRAFT"

VersionNotPublished(flow_version) == flow_version.status # "PUBLISHED"

create_run(key, fv) ==
    LET existing == RunsByIdempotencyKey(key)
    IN  IF existing # {}
        THEN Return(201, CHOOSE i \in existing : TRUE)
        ELSE IF fv \notin DOMAIN flow_versions
        THEN Raise(404, "Flow version not found")
        ELSE IF VersionNotPublished(flow_versions[fv])
        THEN Raise(400, "Flow version must be PUBLISHED")
        ELSE LET run == [run_code           |-> generate_run_code(runs),
                         flow_version_id    |-> fv,
                         status             |-> "IDLE",
                         current_step_index |-> 0,
                         idempotency_key    |-> key,
                         started_at         |-> clock,
                         completed_at       |-> NULL,
                         ended_at           |-> NULL]
             IN  Flush(201, Len(runs) + 1, Append(runs, run), step_execs)

start_run(run_id) ==
    IF run_id \notin DOMAIN runs
    THEN Raise(404, "Production run not found")
    ELSE IF runs[run_id].status # "IDLE"
    THEN Raise(400, "Must be IDLE")
    ELSE LET step_exec == [run_id       |-> run_id,
                           step_index   |-> 0,
                           status       |-> "IN_PROGRESS",
                           started_at   |-> clock,
                           completed_at |-> NULL]
         IN  Flush(200, run_id,
                   [runs EXCEPT ![run_id].status = "RUNNING",
                                ![run_id].started_at = clock],
                   step_execs \cup {step_exec})

\* variant: the step in progress is left as it is
CompleteStepSkipped(ses, run_id, idx) == ses

\* the rows selected by (run_id, step_index) are marked COMPLETED
CompleteStep(ses, run_id, idx) ==
    {IF s.run_id = run_id /\ s.step_index = idx
     THEN [s EXCEPT !.status = "COMPLETED", !.completed_at = clock]
     ELSE s : s \in ses}

\* variant: the guard compares with > instead of >=
AtFinalStepStrict(run) == run.current_step_index > 10

\* "if run.current_step_index >= 10"
AtFinalStep(run) == run.current_step_index >= 10

\* variant: the advance skips a step
NextStepIndexSkip(idx) == idx + 2

\* "run.current_step_index += 1"
NextStepIndex(idx) == idx + 1

advance_step(run_id) ==
    IF run_id \notin DOMAIN runs
    THEN Raise(404, "Production run not found")
    ELSE IF runs[run_id].status # "RUNNING"
    THEN Raise(400, "Must be RUNNING")
    ELSE IF AtFinalStep(runs[run_id])
    THEN Raise(400, "Run is at final step")
    ELSE LET idx == runs[run_id].current_step_index
             next_step == [run_id       |-> run_id,
                           step_index   |-> NextStepIndex(idx),
                           status       |-> "IN_PROGRESS",
                           started_at   |-> clock,
                           completed_at |-> NULL]
         IN  Flush(200, run_id,
                   [runs EXCEPT
                       ![run_id].current_step_index = NextStepIndex(idx)],
                   CompleteStep(step_execs, run_id, idx) \cup {next_step})

\* variant: the hold also closes the step in progress
hold_run_closing_step(run_id) ==
    IF run_id \notin DOMAIN runs
    THEN Raise(404, "Production run not found")
    ELSE IF runs[run_id].status # "RUNNING"
    THEN Raise(400, "Must be RUNNING")
    ELSE Flush(200, run_id,
               [runs EXCEPT ![run_id].status = "HOLD"],
               {IF s.run_id = run_id /\ s.status = "IN_PROGRESS"
                THEN [s EXCEPT !.status = "COMPLETED", !.completed_at = clock]
                ELSE s : s \in step_execs})

hold_run(run_id) ==
    IF run_id \notin DOMAIN runs
    THEN Raise(404, "Production run not found")
    ELSE IF runs[run_id].status # "RUNNING"
    THEN Raise(400, "Must be RUNNING")
    ELSE Flush(200, run_id,
               [runs EXCEPT ![run_id].status = "HOLD"], step_execs)

resume_run(run_id) ==
    IF run_id \notin DOMAIN runs
    THEN Raise(404, "Production run not found")
    ELSE IF runs[run_id].status # "HOLD"
    THEN Raise(400, "Must be HOLD")
    ELSE Flush(200, run_id,
               [runs EXCEPT ![run_id].status = "RUNNING"], step_execs)

\* "if run.current_step_index != 10"
NotAtFinalStep(run) == run.current_step_index # 10

\* variant: the run is completed without closing its last step
complete_run_leaving_step(run_id) ==
    IF run_id \notin DOMAIN runs
    THEN Raise(404, "Production run not found")
    ELSE IF runs[run_id].status # "RUNNING"
    THEN Raise(400, "Must be RUNNING")
    ELSE IF NotAtFinalStep(runs[run_id])
    THEN Raise(400, "Run must be at step 10")
    ELSE Flush(200, run_id,
               [runs EXCEPT ![run_id].status = "COMPLETED",
                            ![run_id].completed_at = clock,
                            ![run_id].ended_at = clock],
               step_execs)

complete_run(run_id) ==
    IF run_id \notin DOMAIN runs
    THEN Raise(404, "Production run not found")
    ELSE IF runs[run_id].status # "RUNNING"
    THEN Raise(400, "Must be RUNNING")
    ELSE IF NotAtFinalStep(runs[run_id])
    THEN Raise(400, "Run must be at step 10")
    ELSE Flush(200, run_id,
               [runs EXCEPT ![run_id].status = "COMPLETED",
                            ![run_id].completed_at = clock,
                            ![run_id].ended_at = clock],
               CompleteStep(step_execs, run_id, 10))

\* variant: a COMPLETED run may be aborted as well
AbortAllowedLoose(run) == run.status \in {"RUNNING", "HOLD", "COMPLETED"}

\* "if run.status not in (RUNNING, HOLD)"
AbortAllowed(run) == run.status \in {"RUNNING", "HOLD"}

abort_run(run_id) ==
    IF run_id \notin DOMAIN runs
    THEN Raise(404, "Production run not found")
    ELSE IF ~AbortAllowed(runs[run_id])
    THEN Raise(400, "Must be RUNNING or HOLD")
    ELSE Flush(200, run_id,
               [runs EXCEPT ![run_id].status = "ABORTED",
                            ![run_id].ended_at = clock],
               step_execs)

\* the transaction of a run handler ends: its outcome is the new state
CommitRuns(out) ==
    /\ Len(out.runs) <= MaxRuns
    /\ runs' = out.runs
    /\ step_execs' = out.step_execs
    /\ UNCHANGED <<flow_versions, lots, buffers, inventory_items, stock_moves>>
    /\ UNCHANGED <<qc_tables, probe, sessions>>

(***************************************************************************)
(* Inventory: lots, buffers and the storage-layer rules of the ledger      *)
(***************************************************************************)
\* lot 1 has a type, lot 2 was created without one (LotCreate.lot_type is
\* optional); id 3 is not a stored lot
SeedLots == (1 :> [lot_type |-> "DEB"]) @@ (2 :> [lot_type |-> "NONE"])
LotIds == 1..3

\* check_violation has not been called
NoProbe ==
    [temperature_c |-> [tenths |-> 0, excess |-> 0], measurement_type |-> "NONE",
     called |-> FALSE, is_violation |-> FALSE]

\* concurrent requests a deployment serves at once
MaxSessions == 2
Sessions == 1..MaxSessions

\* a worker without a request
Idle == [pc |-> "idle", key |-> 0, fv |-> 0, existing |-> {}, pending |-> <<>>,
         code |-> 0, body |-> 0]

\* no request is in flight: the handlers of the other specifications run
\* one at a time
NoSessions == [p \in Sessions |-> Idle]

\* Lot.status defaults to CREATED
SeedLotStatus == [i \in DOMAIN SeedLots |-> "CREATED"]

\* buffers 1 and 2 take DEB lots, buffer 3 does not, buffer 4 is inactive;
\* id 5 is not a stored buffer
SeedBuffers ==
    (1 :> [is_active |-> TRUE, allowed_lot_types |-> {"DEB", "BULK"}]) @@
    (2 :> [is_active |-> TRUE, allowed_lot_types |-> {"DEB", "BULK"}]) @@
    (3 :> [is_active |-> TRUE, allowed_lot_types |-> {"MIX"}]) @@
    (4 :> [is_active |-> FALSE, allowed_lot_types |-> {"DEB", "BULK"}])
BufferIds == 1..5

\* the run the inventory requests refer to; id 2 is not a stored run
SeedRun == [run_code |-> 1, flow_version_id |-> 3, status |-> "IDLE",
            current_step_index |-> 0, idempotency_key |-> 1,
            started_at |-> 1, completed_at |-> NULL, ended_at |-> NULL]
InvRunIds == 1..2

\* trigger trg_inventory_buffer_purity (BEFORE INSERT ON inventory_items):
\* "IF NOT (lot_type_val = ANY(allowed)) THEN RAISE"; a comparison with a
\* NULL lot type is NULL and does not raise
TriggerBufferPurityOK(item) ==
    \/ item.lot_id \notin DOMAIN lots
    \/ item.buffer_id \notin DOMAIN buffers
    \/ lots[item.lot_id].lot_type = "NONE"
    \/ lots[item.lot_id].lot_type \in buffers[item.buffer_id].allowed_lot_types

\* foreign keys of inventory_items
ItemForeignKeysOK(item) ==
    /\ item.lot_id \in DOMAIN lots
    /\ item.buffer_id \in DOMAIN buffers
    /\ item.run_id \in DOMAIN runs

\* foreign keys of stock_moves, ck_stock_moves_type, ck_stock_moves_has_buffer
MoveConstraintsOK(move) ==
    /\ move.lot_id \in DOMAIN lots
    /\ move.from_buffer_id = NULL \/ move.from_buffer_id \in DOMAIN buffers
    /\ move.to_buffer_id = NULL \/ move.to_buffer_id \in DOMAIN buffers
    /\ move.move_type \in {"RECEIVE", "TRANSFER", "CONSUME", "SHIP"}
    /\ move.from_buffer_id # NULL \/ move.to_buffer_id # NULL

\* uq_stock_moves_idempotency
MoveKeyUnique(moves) ==
    \A i, j \in DOMAIN moves :
        moves[i].idempotency_key = moves[j].idempotency_key => i = j

\* raise: get_db rolls the session back
RaiseInv(code, detail) ==
    [code |-> code, detail |-> detail, body |-> 0,
     inventory_items |-> inventory_items, stock_moves |-> stock_moves]

\* db.flush() and the commit of get_db for an inventory handler: updated are
\* the stored items after the handler's updates, added the items it inserts,
\* move the StockMove it inserts
FlushInv(updated, added, move) ==
    LET new_moves == Append(stock_moves, move)
    IN  IF /\ \A i \in DOMAIN added :
                  ItemForeignKeysOK(added[i]) /\ TriggerBufferPurityOK(added[i])
           /\ MoveConstraintsOK(move)
           /\ MoveKeyUnique(new_moves)
        THEN [code |-> 201, detail |-> "ok", body |-> Len(new_moves),
              inventory_items |-> updated \o added, stock_moves |-> new_moves]
        ELSE RaiseInv(500, "IntegrityError")

(***************************************************************************)
(* Inventory helpers (inventory.py)                                        *)
(***************************************************************************)
Valid == [code |-> 200, detail |-> "ok"]

\* "if lot.lot_type and lot.lot_type.value not in buffer.allowed_lot_types"
LotTypeNotAllowed(lot, buffer) ==
    lot.lot_type # "NONE" /\ lot.lot_type \notin buffer.allowed_lot_types

\* the HTTPException validate_buffer_lot_type raises, or Valid
validate_buffer_lot_type(buffer_id, lot_id) ==
    IF buffer_id \notin DOMAIN buffers
    THEN [code |-> 404, detail |-> "Buffer not found"]
    ELSE IF ~buffers[buffer_id].is_active
    THEN [code |-> 400, detail |-> "Buffer is not active"]
    ELSE IF lot_id \notin DOMAIN lots
    THEN [code |-> 404, detail |-> "Lot not found"]
    ELSE IF LotTypeNotAllowed(lots[lot_id], buffers[buffer_id])
    THEN [code |-> 400, detail |-> "Lot type not allowed in this buffer"]
    ELSE Valid

\* variant: the lookup by idempotency key finds nothing
check_idempotency_skipped(key) == {}

\* ids of the stock moves stored under the key
check_idempotency(key) ==
    {i \in DOMAIN stock_moves : stock_moves[i].idempotency_key = key}

\* select(InventoryItem).where(lot_id, buffer_id, exited_at IS NULL)
ActiveItems(lot_id, buffer_id) ==
    {i \in DOMAIN inventory_items :
        /\ inventory_items[i].lot_id = lot_id
        /\ inventory_items[i].buffer_id = buffer_id
        /\ inventory_items[i].exited_at = NULL}

\* variant: the quantity check is absent
QuantityUnchecked(item, quantity_kg) == FALSE

\* "if item.quantity_kg < data.quantity_kg"
InsufficientQuantity(item, quantity_kg) == item.quantity_kg < quantity_kg

\* variant: the item exits whatever quantity is taken
TakeWholeItem(item, quantity_kg) == [item EXCEPT !.exited_at = clock]

\* full move: the item exits; partial move: its quantity is reduced
TakeFromItem(item, quantity_kg) ==
    IF item.quantity_kg = quantity_kg
    THEN [item EXCEPT !.exited_at = clock]
    ELSE [item EXCEPT !.quantity_kg = @ - quantity_kg]

\* variant: the two buffers of the move change places
StockMoveReversed(lot_id, from_buffer_id, to_buffer_id, quantity_kg, move_type, key) ==
    [lot_id          |-> lot_id,
     from_buffer_id  |-> to_buffer_id,
     to_buffer_id    |-> from_buffer_id,
     quantity_kg     |-> quantity_kg,
     move_type       |-> move_type,
     idempotency_key |-> key,
     created_at      |-> clock]

StockMove(lot_id, from_buffer_id, to_buffer_id, quantity_kg, move_type, key) ==
    [lot_id          |-> lot_id,
     from_buffer_id  |-> from_buffer_id,
     to_buffer_id    |-> to_buffer_id,
     quantity_kg     |-> quantity_kg,
     move_type       |-> move_type,
     idempotency_key |-> key,
     created_at      |-> clock]

\* "if existing: return StockMoveResponse.model_validate(existing)"
Replay(existing) ==
    [code |-> 201, detail |-> "ok", body |-> CHOOSE i \in existing : TRUE,
     inventory_items |-> inventory_items, stock_moves |-> stock_moves]

(***************************************************************************)
(* Inventory endpoints (inventory.py)                                      *)
(***************************************************************************)
receive_to_buffer(key, lot_id, buffer_id, run_id, quantity_kg) ==
    LET existing == check_idempotency(key)
        valid == validate_buffer_lot_type(buffer_id, lot_id)
    IN  IF existing # {}
        THEN Replay(existing)
        ELSE IF valid # Valid
        THEN RaiseInv(valid.code, valid.detail)
        ELSE IF run_id \notin DOMAIN runs
        THEN RaiseInv(404, "Production run not found")
        ELSE LET inventory_item == [lot_id      |-> lot_id,
                                    buffer_id   |-> buffer_id,
                                    run_id      |-> run_id,
                                    quantity_kg |-> quantity_kg,
                                    entered_at  |-> clock,
                                    exited_at   |-> NULL]
             IN  FlushInv(inventory_items, <<inventory_item>>,
                          StockMove(lot_id, NULL, buffer_id, quantity_kg,
                                    "RECEIVE", key))

transfer_between_buffers(key, lot_id, from_buffer_id, to_buffer_id, quantity_kg) ==
    LET existing == check_idempotency(key)
        valid == validate_buffer_lot_type(to_buffer_id, lot_id)
        found == ActiveItems(lot_id, from_buffer_id)
    IN  IF existing # {}
        THEN Replay(existing)
        ELSE IF valid # Valid
        THEN RaiseInv(valid.code, valid.detail)
        ELSE IF Cardinality(found) > 1
        THEN RaiseInv(500, "MultipleResultsFound")
        ELSE IF found = {}
        THEN RaiseInv(400, "Lot not found in source buffer")
        ELSE LET id == CHOOSE i \in found : TRUE
                 source_item == inventory_items[id]
             IN  IF InsufficientQuantity(source_item, quantity_kg)
                 THEN RaiseInv(400, "Insufficient quantity")
                 ELSE LET new_item == [lot_id      |-> lot_id,
                                       buffer_id   |-> to_buffer_id,
                                       run_id      |-> source_item.run_id,
                                       quantity_kg |-> quantity_kg,
                                       entered_at  |-> clock,
                                       exited_at   |-> NULL]
                      IN  FlushInv([inventory_items EXCEPT
                                      ![id] = TakeFromItem(source_item, quantity_kg)],
                                   <<new_item>>,
                                   StockMove(lot_id, from_buffer_id, to_buffer_id,
                                             quantity_kg, "TRANSFER", key))

\* variant: the open item is looked up before the idempotency key
consume_checking_item_first(key, lot_id, buffer_id, quantity_kg) ==
    LET existing == check_idempotency(key)
        found == ActiveItems(lot_id, buffer_id)
    IN  IF Cardinality(found) > 1
        THEN RaiseInv(500, "MultipleResultsFound")
        ELSE IF found = {}
        THEN RaiseInv(400, "Lot not found in buffer")
        ELSE IF existing # {}
        THEN Replay(existing)
        ELSE LET id == CHOOSE i \in found : TRUE
                 item == inventory_items[id]
             IN  IF InsufficientQuantity(item, quantity_kg)
                 THEN RaiseInv(400, "Insufficient quantity")
                 ELSE FlushInv([inventory_items EXCEPT
                                  ![id] = TakeFromItem(item, quantity_kg)],
                               <<>>,
                               StockMove(lot_id, buffer_id, NULL, quantity_kg,
                                         "CONSUME", key))

consume_from_buffer(key, lot_id, buffer_id, quantity_kg) ==
    LET existing == check_idempotency(key)
        found == ActiveItems(lot_id, buffer_id)
    IN  IF existing # {}
        THEN Replay(existing)
        ELSE IF Cardinality(found) > 1
        THEN RaiseInv(500, "MultipleResultsFound")
        ELSE IF found = {}
        THEN RaiseInv(400, "Lot not found in buffer")
        ELSE LET id == CHOOSE i \in found : TRUE
                 item == inventory_items[id]
             IN  IF InsufficientQuantity(item, quantity_kg)
                 THEN RaiseInv(400, "Insufficient quantity")
                 ELSE FlushInv([inventory_items EXCEPT
                                  ![id] = TakeFromItem(item, quantity_kg)],
                               <<>>,
                               StockMove(lot_id, buffer_id, NULL, quantity_kg,
                                         "CONSUME", key))

ship_from_buffer(key, lot_id, buffer_id, quantity_kg) ==
    LET existing == check_idempotency(key)
        found == ActiveItems(lot_id, buffer_id)
    IN  IF existing # {}
        THEN Replay(existing)
        ELSE IF Cardinality(found) > 1
        THEN RaiseInv(500, "MultipleResultsFound")
        ELSE IF found = {}
        THEN RaiseInv(400, "Lot not found in buffer")
        ELSE LET id == CHOOSE i \in found : TRUE
                 item == inventory_items[id]
             IN  IF InsufficientQuantity(item, quantity_kg)
                 THEN RaiseInv(400, "Insufficient quantity")
                 ELSE FlushInv([inventory_items EXCEPT
                                  ![id] = TakeFromItem(item, quantity_kg)],
                               <<>>,
                               StockMove(lot_id, buffer_id, NULL, quantity_kg,
                                         "SHIP", key))

\* the transaction of an inventory handler ends: its outcome is the new state
CommitInv(out) ==
    /\ Len(out.stock_moves) <= MaxMoves
    /\ inventory_items' = out.inventory_items
    /\ stock_moves' = out.stock_moves
    /\ UNCHANGED <<flow_versions, runs, step_execs, lots, buffers>>
    /\ UNCHANGED <<qc_tables, probe, sessions>>

(***************************************************************************)
(* Requests                                                                *)
(***************************************************************************)
\* Idempotency keys are opaque UUIDs that the handlers only compare for
\* equality, so a client that sends a key no stored row carries sends the
\* least such key.
RequestKeys(keys, used) ==
    {k \in keys : k \in used \/ \A j \in keys : j < k => j \in used}

UsedRunKeys == {runs[i].idempotency_key : i \in DOMAIN runs}
UsedMoveKeys == {stock_moves[i].idempotency_key : i \in DOMAIN stock_moves}

RunKeys == RequestKeys(Keys, UsedRunKeys)
StockKeys == RequestKeys(MoveKeys, UsedMoveKeys)

CreateRun == \E key \in RunKeys, fv \in FlowVersionIds : CommitRuns(create_run(key, fv))
StartRun == \E run_id \in RunIds : CommitRuns(start_run(run_id))
AdvanceStep == \E run_id \in RunIds : CommitRuns(advance_step(run_id))
HoldRun == \E run_id \in RunIds : CommitRuns(hold_run(run_id))
ResumeRun == \E run_id \in RunIds : CommitRuns(resume_run(run_id))
CompleteRun == \E run_id \in RunIds : CommitRuns(complete_run(run_id))
AbortRun == \E run_id \in RunIds : CommitRuns(abort_run(run_id))

Receive ==
    \E key \in StockKeys, lot_id \in LotIds, buffer_id \in BufferIds,
       run_id \in InvRunIds, quantity_kg \in Quantities :
        CommitInv(receive_to_buffer(key, lot_id, buffer_id, run_id, quantity_kg))

Transfer ==
    \E key \in StockKeys, lot_id \in LotIds, from_buffer_id \in BufferIds,
       to_buffer_id \in BufferIds, quantity_kg \in Quantities :
        CommitInv(transfer_between_buffers(key, lot_id, from_buffer_id,
                                           to_buffer_id, quantity_kg))

Consume ==
    \E key \in StockKeys, lot_id \in LotIds, buffer_id \in BufferIds,
       quantity_kg \in Quantities :
        CommitInv(consume_from_buffer(key, lot_id, buffer_id, quantity_kg))

Ship ==
    \E key \in StockKeys, lot_id \in LotIds, buffer_id \in BufferIds,
       quantity_kg \in Quantities :
        CommitInv(ship_from_buffer(key, lot_id, buffer_id, quantity_kg))

\* time passes between requests
Tick ==
    /\ clock < MaxClock
    /\ clock' = clock + 1
    /\ UNCHANGED <<flow_versions, runs, step_execs, script,
                   lots, buffers, inventory_items, stock_moves>>
    /\ UNCHANGED <<qc_tables, probe, sessions>>

(***************************************************************************)
(* Spec: the run endpoints under arbitrary request sequences               *)
(***************************************************************************)
\* the scripted client has not issued a request
NoScript == [pos |-> 0, run_id |-> 0, held |-> FALSE, pairs |-> 0, ok |-> TRUE]

Init ==
    /\ flow_versions = SeedFlowVersions
    /\ runs = <<>>
    /\ step_execs = {}
    /\ clock = 1
    /\ script = NoScript
    /\ lots = SeedLots
    /\ buffers = SeedBuffers
    /\ inventory_items = <<>>
    /\ stock_moves = <<>>
    /\ lot_status = SeedLotStatus
    /\ temperature_logs = <<>>
    /\ audit_events = <<>>
    /\ qc_inspections = <<>>
    /\ probe = NoProbe
    /\ sessions = NoSessions

Next ==
    /\ \/ CreateRun
       \/ StartRun
       \/ AdvanceStep
       \/ HoldRun
       \/ ResumeRun
       \/ CompleteRun
       \/ AbortRun
    /\ UNCHANGED <<clock, script>>

Spec == Init /\ [][Next]_vars

(***************************************************************************)
(* SpecInventory: the inventory endpoints under arbitrary request          *)
(* sequences; the tables hold the seeded lots, buffers and run             *)
(***************************************************************************)
InitInventory ==
    /\ flow_versions = SeedFlowVersions
    /\ runs = <<SeedRun>>
    /\ step_execs = {}
    /\ clock = 1
    /\ script = NoScript
    /\ lots = SeedLots
    /\ buffers = SeedBuffers
    /\ inventory_items = <<>>
    /\ stock_moves = <<>>
    /\ lot_status = SeedLotStatus
    /\ temperature_logs = <<>>
    /\ audit_events = <<>>
    /\ qc_inspections = <<>>
    /\ probe = NoProbe
    /\ sessions = NoSessions

NextInventory ==
    /\ \/ Receive
       \/ Transfer
       \/ Consume
       \/ Ship
    /\ UNCHANGED <<clock, script>>

SpecInventory == InitInventory /\ [][NextInventory]_vars

(***************************************************************************)
(* SpecScenario: one client runs the end-to-end scenario: create on the    *)
(* PUBLISHED version, start, advance ten times, complete, with hold/resume *)
(* pairs in between, while time passes                                     *)
(***************************************************************************)
PublishedVersion == 3
ScriptKey == 1
\* script.pos: 0 nothing sent, 1 created, 2 started, 2 + k after k advances,
\* ScriptDone completed
ScriptReady == FinalStep + 2
ScriptDone == FinalStep + 3

\* the client sends a request, the handler commits, the client notes whether
\* the response was a success and moves on
ScriptStep(out, next_script) ==
    /\ CommitRuns(out)
    /\ script' = [next_script EXCEPT !.ok = script.ok /\ IsSuccess(out)]
    /\ UNCHANGED clock

ScriptCreate ==
    /\ script.pos = 0
    /\ LET out == create_run(ScriptKey, PublishedVersion)
       IN  ScriptStep(out, [script EXCEPT !.pos = 1, !.run_id = out.body])

ScriptStart ==
    /\ script.pos = 1
    /\ ScriptStep(start_run(script.run_id), [script EXCEPT !.pos = 2])

ScriptAdvance ==
    /\ script.pos >= 2
    /\ script.pos < ScriptReady
    /\ ~script.held
    /\ ScriptStep(advance_step(script.run_id), [script EXCEPT !.pos = @ + 1])

ScriptHold ==
    /\ script.pos >= 2
    /\ script.pos <= ScriptReady
    /\ ~script.held
    /\ script.pairs < MaxPairs
    /\ ScriptStep(hold_run(script.run_id), [script EXCEPT !.held = TRUE])

ScriptResume ==
    /\ script.held
    /\ ScriptStep(resume_run(script.run_id),
                  [script EXCEPT !.held = FALSE, !.pairs = @ + 1])

ScriptComplete ==
    /\ script.pos = ScriptReady
    /\ ~script.held
    /\ ScriptStep(complete_run(script.run_id), [script EXCEPT !.pos = ScriptDone])

NextScenario ==
    \/ ScriptCreate
    \/ ScriptStart
    \/ ScriptAdvance
    \/ ScriptHold
    \/ ScriptResume
    \/ ScriptComplete
    \/ Tick

SpecScenario == Init /\ [][NextScenario]_vars

(***************************************************************************)
(* Properties of the run lifecycle                                         *)
(***************************************************************************)
StoredRun(run_id) == run_id \in DOMAIN runs
StatusOf(run_id) == runs[run_id].status
StepOf(run_id) == runs[run_id].current_step_index
StepRows(ses, run_id) == {s \in ses : s.run_id = run_id}
Untouched(out) == out.runs = runs /\ out.step_execs = step_execs
Rejected(out) == IsClientError(out) /\ Untouched(out)

\* an endpoint answers a request with a success only from its source status
TransitionGuards ==
    \A run_id \in RunIds :
        /\ IsSuccess(start_run(run_id)) =>
              StoredRun(run_id) /\ StatusOf(run_id) = "IDLE"
        /\ IsSuccess(advance_step(run_id)) =>
              StoredRun(run_id) /\ StatusOf(run_id) = "RUNNING"
        /\ IsSuccess(hold_run(run_id)) =>
              StoredRun(run_id) /\ StatusOf(run_id) = "RUNNING"
        /\ IsSuccess(resume_run(run_id)) =>
              StoredRun(run_id) /\ StatusOf(run_id) = "HOLD"
        /\ IsSuccess(complete_run(run_id)) =>
              /\ StoredRun(run_id)
              /\ StatusOf(run_id) = "RUNNING"
              /\ StepOf(run_id) = 10
        /\ IsSuccess(abort_run(run_id)) =>
              StoredRun(run_id) /\ StatusOf(run_id) \in {"RUNNING", "HOLD"}

\* no step takes a stored run out of COMPLETED or ABORTED
TerminalStatusKept ==
    \A i \in DOMAIN runs :
        /\ i \in DOMAIN runs'
        /\ runs[i].status \in {"COMPLETED", "ABORTED"} =>
              runs'[i].status = runs[i].status

\* C1: start succeeds only from IDLE, advance and hold only from RUNNING,
\* resume only from HOLD, complete only from RUNNING at step 10, abort only
\* from RUNNING or HOLD; a run that is COMPLETED or ABORTED never changes
\* status again.
C1_StateMachineLegality == []TransitionGuards /\ [][TerminalStatusKept]_vars

\* a run has completed and another one was aborted
C1_Witness ==
    /\ \E i \in DOMAIN runs : runs[i].status = "COMPLETED"
    /\ \E j \in DOMAIN runs : runs[j].status = "ABORTED"

\* the step index is in 0..10; a successful advance moves it by one and is
\* not possible at 10; every other endpoint leaves it alone
StepIndexRules ==
    /\ \A i \in DOMAIN runs : StepOf(i) \in 0..10
    /\ \A run_id \in DOMAIN runs :
          /\ IsSuccess(advance_step(run_id)) =>
                /\ StepOf(run_id) < 10
                /\ advance_step(run_id).runs[run_id].current_step_index
                      = StepOf(run_id) + 1
          /\ StepOf(run_id) = 10 => ~IsSuccess(advance_step(run_id))
          /\ \A out \in {start_run(run_id), hold_run(run_id),
                         resume_run(run_id), complete_run(run_id),
                         abort_run(run_id)} :
                out.runs[run_id].current_step_index = StepOf(run_id)
    /\ \A key \in RunKeys, fv \in FlowVersionIds, i \in DOMAIN runs :
          create_run(key, fv).runs[i].current_step_index = StepOf(i)

\* over a step the index of a stored run stays or grows by one
StepIndexMonotone ==
    \A i \in DOMAIN runs :
        /\ i \in DOMAIN runs'
        /\ runs'[i].current_step_index \in {StepOf(i), StepOf(i) + 1}

\* C2: current_step_index never decreases, stays within 0..10, grows by
\* exactly 1 on a successful advance and by 0 on every other operation;
\* advance at index 10 is rejected.
C2_StepMonotonicity == []StepIndexRules /\ [][StepIndexMonotone]_vars

\* a run was advanced to step 10, where the next advance is refused
C2_Witness ==
    \E i \in DOMAIN runs :
        /\ StepOf(i) = 10
        /\ StatusOf(i) = "RUNNING"
        /\ Cardinality(StepRows(step_execs, i)) = 11
        /\ advance_step(i).code = 400

\* C3: for a run created on a PUBLISHED flow version, start, ten advances
\* and complete, with hold/resume pairs interleaved, all succeed; at the end
\* the run is COMPLETED, completed_at and ended_at are set, and the run has
\* exactly 11 step executions, one per step index 0..10, all COMPLETED.
C3_EndToEnd ==
    /\ script.ok
    /\ script.pos = ScriptDone =>
          LET run == runs[script.run_id]
              rows == StepRows(step_execs, script.run_id)
          IN  /\ run.status = "COMPLETED"
              /\ run.completed_at # NULL
              /\ run.ended_at # NULL
              /\ Cardinality(rows) = 11
              /\ \A k \in 0..10 : \E s \in rows : s.step_index = k
              /\ \A s \in rows : s.status = "COMPLETED"

\* the client has completed the run after putting it on hold on the way
C3_Witness == script.pos = ScriptDone /\ script.pairs > 0

\* the precondition of each transition endpoint, as the lifecycle table
\* states it
StartAllowed(run_id) == StoredRun(run_id) /\ StatusOf(run_id) = "IDLE"
AdvanceAllowed(run_id) ==
    StoredRun(run_id) /\ StatusOf(run_id) = "RUNNING" /\ StepOf(run_id) < 10
HoldAllowed(run_id) == StoredRun(run_id) /\ StatusOf(run_id) = "RUNNING"
ResumeAllowed(run_id) == StoredRun(run_id) /\ StatusOf(run_id) = "HOLD"
CompleteAllowed(run_id) ==
    StoredRun(run_id) /\ StatusOf(run_id) = "RUNNING" /\ StepOf(run_id) = 10
AbortPermitted(run_id) ==
    StoredRun(run_id) /\ StatusOf(run_id) \in {"RUNNING", "HOLD"}

\* C4: a transition request whose precondition does not hold (wrong source
\* status, advance at step 10, complete before step 10, unknown run id) is
\* answered with a client error, and the runs and their step executions are
\* exactly as before the request.
C4_FailedPreconditionRejected ==
    \A run_id \in RunIds :
        /\ ~StartAllowed(run_id) => Rejected(start_run(run_id))
        /\ ~AdvanceAllowed(run_id) => Rejected(advance_step(run_id))
        /\ ~HoldAllowed(run_id) => Rejected(hold_run(run_id))
        /\ ~ResumeAllowed(run_id) => Rejected(resume_run(run_id))
        /\ ~CompleteAllowed(run_id) => Rejected(complete_run(run_id))
        /\ ~AbortPermitted(run_id) => Rejected(abort_run(run_id))

\* one run is RUNNING at step 10 (advance is refused), another is RUNNING
\* before step 10 (complete is refused)
C4_Witness ==
    \E i, j \in DOMAIN runs :
        /\ StatusOf(i) = "RUNNING" /\ StepOf(i) = 10
        /\ StatusOf(j) = "RUNNING" /\ StepOf(j) < 10
        /\ IsClientError(advance_step(i))
        /\ IsClientError(complete_run(j))

Published(fv) ==
    fv \in DOMAIN flow_versions /\ flow_versions[fv].status = "PUBLISHED"

\* what the claim says of one create_run request
CreateRule(key, fv) ==
    LET out == create_run(key, fv)
    IN  /\ IsSuccess(out) => Published(fv)
        /\ ~Published(fv) => Rejected(out)
        /\ IsSuccess(out) =>
              /\ out.body \in DOMAIN out.runs
              /\ out.runs[out.body].status = "IDLE"
              /\ out.runs[out.body].current_step_index = 0

\* C5 as stated: create_run succeeds only when the referenced flow version
\* exists and is PUBLISHED; otherwise it is rejected and no run is created;
\* a successful create yields a run that is IDLE at step 0.
C5_CreateRequiresPublished ==
    \A key \in RunKeys, fv \in FlowVersionIds : CreateRule(key, fv)

\* C5, amended: the same for every create_run whose idempotency key no
\* stored run carries.
C5_FirstCreateRequiresPublished ==
    \A key \in RunKeys \ UsedRunKeys, fv \in FlowVersionIds : CreateRule(key, fv)

\* a run was created on the PUBLISHED version and creates naming the other
\* versions are refused
C5_Witness ==
    /\ runs # <<>>
    /\ \A i \in DOMAIN runs : Published(runs[i].flow_version_id)
    /\ \E key \in RunKeys \ UsedRunKeys :
          /\ create_run(key, 1).code = 400
          /\ create_run(key, 5).code = 404
          /\ IsSuccess(create_run(key, PublishedVersion))

\* a replay answers with the stored run of the key and writes nothing
ReplayReturnsFirst ==
    /\ \A i, j \in DOMAIN runs :
          runs[i].idempotency_key = runs[j].idempotency_key => i = j
    /\ \A i \in DOMAIN runs, fv \in FlowVersionIds :
          LET out == create_run(runs[i].idempotency_key, fv)
          IN  IsSuccess(out) /\ out.body = i /\ Untouched(out)

\* a stored run keeps its id and its key
RunKeyKept ==
    \A i \in DOMAIN runs :
        /\ i \in DOMAIN runs'
        /\ runs'[i].idempotency_key = runs[i].idempotency_key

\* C6: a create_run with a key that a stored run carries returns that run
\* (same id) wherever it occurs in a sequence of operations, creates no
\* second run and leaves the run's status and step index as they are.
C6_CreateIdempotent == []ReplayReturnsFirst /\ [][RunKeyKept]_vars

\* the run of the key has moved on since it was created, and the replay
\* still returns it
C6_Witness ==
    \E i \in DOMAIN runs :
        /\ StepOf(i) > 0
        /\ StatusOf(i) = "HOLD"
        /\ create_run(runs[i].idempotency_key, PublishedVersion).body = i

(***************************************************************************)
(* Properties of the inventory ledger                                      *)
(***************************************************************************)
UntouchedInv(out) ==
    out.inventory_items = inventory_items /\ out.stock_moves = stock_moves
RejectedInv(out) == IsClientError(out) /\ UntouchedInv(out)
FreshStockKeys == StockKeys \ UsedMoveKeys

\* C7: a receive, transfer, consume or ship whose idempotency key a stored
\* stock move carries returns that stock move (same id) and changes nothing:
\* no inventory item is created, closed or decremented and no stock move is
\* appended.
C7_StockMoveIdempotent ==
    \A i \in DOMAIN stock_moves :
        LET key == stock_moves[i].idempotency_key
            Same(out) == IsSuccess(out) /\ out.body = i /\ UntouchedInv(out)
        IN  \A lot_id \in LotIds, buffer_id \in BufferIds,
               quantity_kg \in Quantities :
                /\ \A run_id \in InvRunIds :
                      Same(receive_to_buffer(key, lot_id, buffer_id, run_id,
                                             quantity_kg))
                /\ \A to_buffer_id \in BufferIds :
                      Same(transfer_between_buffers(key, lot_id, buffer_id,
                                                    to_buffer_id, quantity_kg))
                /\ Same(consume_from_buffer(key, lot_id, buffer_id, quantity_kg))
                /\ Same(ship_from_buffer(key, lot_id, buffer_id, quantity_kg))

\* a transfer has emptied its source item; sent again under its key it is
\* answered with the stored move
C7_Witness ==
    \E i \in DOMAIN stock_moves :
        LET move == stock_moves[i]
        IN  /\ move.move_type = "TRANSFER"
            /\ ActiveItems(move.lot_id, move.from_buffer_id) = {}
            /\ transfer_between_buffers(move.idempotency_key, move.lot_id,
                                        move.from_buffer_id, move.to_buffer_id,
                                        move.quantity_kg).body = i

RECURSIVE SumOpen(_, _)
\* sum of quantity_kg over the open items of the lot
SumOpen(items, lot_id) ==
    IF items = <<>> THEN 0
    ELSE (IF Head(items).lot_id = lot_id /\ Head(items).exited_at = NULL
          THEN Head(items).quantity_kg ELSE 0) + SumOpen(Tail(items), lot_id)

RECURSIVE SumMoves(_, _, _)
\* sum of quantity_kg over the stock moves of the lot with the move type
SumMoves(moves, lot_id, move_type) ==
    IF moves = <<>> THEN 0
    ELSE (IF Head(moves).lot_id = lot_id /\ Head(moves).move_type = move_type
          THEN Head(moves).quantity_kg ELSE 0)
         + SumMoves(Tail(moves), lot_id, move_type)

C9_BufferPurity ==
    \A i \in DOMAIN inventory_items :
        LET item == inventory_items[i]
        IN  /\ item.buffer_id \in DOMAIN buffers
            /\ buffers[item.buffer_id].is_active
            /\ lots[item.lot_id].lot_type
                  \in buffers[item.buffer_id].allowed_lot_types

\* the source holds no open item of the lot, or one open item with less
\* than the requested quantity
CannotTake(lot_id, buffer_id, quantity_kg) ==
    LET found == ActiveItems(lot_id, buffer_id)
    IN  \/ found = {}
        \/ /\ Cardinality(found) = 1
           /\ \A i \in found : inventory_items[i].quantity_kg < quantity_kg

\* what the claim says of the requests that carry the key
TakeRule(key) ==
    \A lot_id \in LotIds, buffer_id \in BufferIds, quantity_kg \in Quantities :
        CannotTake(lot_id, buffer_id, quantity_kg) =>
            /\ \A to_buffer_id \in BufferIds :
                  RejectedInv(transfer_between_buffers(key, lot_id, buffer_id,
                                                       to_buffer_id,
                                                       quantity_kg))
            /\ RejectedInv(consume_from_buffer(key, lot_id, buffer_id,
                                               quantity_kg))
            /\ RejectedInv(ship_from_buffer(key, lot_id, buffer_id, quantity_kg))

Decimal(tenths, excess) == [tenths |-> tenths, excess |-> excess]

\* a > b on Decimals, exact
DecimalGreater(a, b) ==
    \/ a.tenths > b.tenths
    \/ a.tenths = b.tenths /\ a.excess > b.excess

\* float(d): the nearest binary64.  Away from zero the excess is below half
\* the spacing of the binary64 numbers and is lost; the floats of distinct
\* tenths stay distinct and ordered.
float(d) == IF d.tenths = 0 THEN d ELSE Decimal(d.tenths, 0)

\* a > b on floats
FloatGreater(a, b) ==
    \/ a.tenths > b.tenths
    \/ a.tenths = b.tenths /\ a.excess > b.excess

MeasurementType == {"SURFACE", "CORE", "AMBIENT"}

TEMP_THRESHOLDS ==
    [t \in MeasurementType |->
        IF t = "SURFACE" THEN Decimal(40, 0) ELSE Decimal(-180, 0)]

check_violation(temperature_c, measurement_type) ==
    IF measurement_type \notin DOMAIN TEMP_THRESHOLDS
    THEN FALSE
    ELSE FloatGreater(float(temperature_c),
                      float(TEMP_THRESHOLDS[measurement_type]))

(***************************************************************************)
(* SpecViolation: check_violation applied to one reading and one type      *)
(***************************************************************************)
\* readings lie within Spread tenths of a threshold or of zero
Spread == 3
MaxExcess == 1

NearThreshold ==
    UNION {{TEMP_THRESHOLDS[t].tenths + d : d \in (0 - Spread)..Spread} :
              t \in MeasurementType}
Readings ==
    {Decimal(tenths, excess) :
        tenths \in NearThreshold \cup (0 - Spread)..Spread,
        excess \in 0..MaxExcess}

InitViolation ==
    /\ flow_versions = SeedFlowVersions
    /\ runs = <<>>
    /\ step_execs = {}
    /\ clock = 1
    /\ script = NoScript
    /\ lots = SeedLots
    /\ buffers = SeedBuffers
    /\ inventory_items = <<>>
    /\ stock_moves = <<>>
    /\ lot_status = SeedLotStatus
    /\ temperature_logs = <<>>
    /\ audit_events = <<>>
    /\ qc_inspections = <<>>
    /\ \E temperature_c \in Readings, measurement_type \in MeasurementType :
          probe = [temperature_c    |-> temperature_c,
                   measurement_type |-> measurement_type,
                   called           |-> FALSE,
                   is_violation     |-> FALSE]
    /\ sessions = NoSessions

\* "is_violation = check_violation(float(log_data.temperature_c), ...)"
CheckViolation ==
    /\ ~probe.called
    /\ probe' = [probe EXCEPT
                    !.called = TRUE,
                    !.is_violation =
                        check_violation(float(probe.temperature_c),
                                        probe.measurement_type)]
    /\ UNCHANGED <<flow_versions, runs, step_execs, clock, script, lots,
                   buffers, inventory_items, stock_moves, qc_tables, sessions>>

NextViolation == CheckViolation

SpecViolation == InitViolation /\ [][NextViolation]_vars

\* C12: the is_violation flag of a reading equals (reading > threshold(type))
\* with threshold 4.0 for SURFACE and -18.0 for CORE and AMBIENT, strictly.
C12_ViolationFlag ==
    probe.called =>
        probe.is_violation =
            DecimalGreater(probe.temperature_c,
                           TEMP_THRESHOLDS[probe.measurement_type])

(***************************************************************************)
(* Temperature logs and the audit log (temperature_logs.py, migration      *)
(* phase84_02: handle_temp_violation, prevent_audit_modification)          *)
(***************************************************************************)
\* rows the temperature_logs table grows to
MaxLogs == 2

LotStatus == {"CREATED", "QUARANTINE", "RELEASED", "HOLD",
              "REJECTED", "CONSUMED", "FINISHED"}

\* temperature_c is stored as Numeric(5, 1): rounded to one decimal place;
\* the stored value is a number of tenths
Numeric51(d) == d.tenths

\* foreign keys of temperature_logs
TemperatureLogForeignKeysOK(temp_log) ==
    /\ temp_log.lot_id = NULL \/ temp_log.lot_id \in DOMAIN lots
    /\ temp_log.buffer_id = NULL \/ temp_log.buffer_id \in DOMAIN buffers
    /\ temp_log.inspection_id = NULL
          \/ temp_log.inspection_id \in DOMAIN qc_inspections

\* variant: a lot in QUARANTINE is not put on hold
HoldableReleasedOrCreated == {"RELEASED", "CREATED"}

\* "status IN ('RELEASED', 'QUARANTINE', 'CREATED')"
HoldableStatuses == {"RELEASED", "QUARANTINE", "CREATED"}

\* "UPDATE lots SET status = 'HOLD' WHERE id = NEW.lot_id AND status IN ..."
HoldLot(temp_log) ==
    [l \in DOMAIN lot_status |->
        IF l = temp_log.lot_id /\ lot_status[l] \in HoldableStatuses
        THEN "HOLD" ELSE lot_status[l]]

ViolationEvent(temp_log) ==
    [event_type  |-> "TEMP_VIOLATION_HOLD",
     entity_type |-> "lot",
     entity_id   |-> temp_log.lot_id,
     new_state   |-> "HOLD",
     created_at  |-> clock]

\* variant: the event is recorded only when the lot is put on hold
RecordViolationOnHold(temp_log) ==
    IF lot_status[temp_log.lot_id] \in HoldableStatuses
    THEN Append(audit_events, ViolationEvent(temp_log))
    ELSE audit_events

\* "INSERT INTO audit_events (...) VALUES ('TEMP_VIOLATION_HOLD', 'lot', ...)"
RecordViolation(temp_log) == Append(audit_events, ViolationEvent(temp_log))

\* trigger trg_temp_violation_hold, AFTER INSERT ON temperature_logs
handle_temp_violation(temp_log) ==
    IF temp_log.is_violation /\ temp_log.lot_id # NULL
    THEN [lot_status |-> HoldLot(temp_log),
          audit_events |-> RecordViolation(temp_log)]
    ELSE [lot_status |-> lot_status, audit_events |-> audit_events]

create_temperature_log(lot_id, buffer_id, inspection_id, temperature_c, measurement_type) ==
    LET is_violation == check_violation(float(temperature_c), measurement_type)
        temp_log == [lot_id           |-> lot_id,
                     buffer_id        |-> buffer_id,
                     inspection_id    |-> inspection_id,
                     temperature_c    |-> Numeric51(temperature_c),
                     measurement_type |-> measurement_type,
                     is_violation     |-> is_violation,
                     recorded_at      |-> clock]
        fired == handle_temp_violation(temp_log)
    IN  IF ~TemperatureLogForeignKeysOK(temp_log)
        THEN [code |-> 500, detail |-> "IntegrityError", body |-> 0,
              temperature_logs |-> temperature_logs,
              lot_status |-> lot_status, audit_events |-> audit_events]
        ELSE [code |-> 201, detail |-> "ok",
              body |-> Len(temperature_logs) + 1,
              temperature_logs |-> Append(temperature_logs, temp_log),
              lot_status |-> fired.lot_status,
              audit_events |-> fired.audit_events]

\* variant: the triggers on audit_events are absent, nothing is raised
AuditModificationPasses == FALSE

\* prevent_audit_modification: BEFORE UPDATE and BEFORE DELETE, FOR EACH ROW,
\* "RAISE EXCEPTION 'Audit events are append-only ...'"
AuditModificationRaises == TRUE

\* UPDATE audit_events SET event_type = ... WHERE id = ...: the log after
\* the statement
update_audit_event(id, event_type) ==
    IF id \in DOMAIN audit_events /\ ~AuditModificationRaises
    THEN [audit_events EXCEPT ![id].event_type = event_type]
    ELSE audit_events

\* DELETE FROM audit_events WHERE id = ...: the log after the statement
delete_audit_event(id) ==
    IF id \in DOMAIN audit_events /\ ~AuditModificationRaises
    THEN [i \in 1..(Len(audit_events) - 1) |->
             IF i < id THEN audit_events[i] ELSE audit_events[i + 1]]
    ELSE audit_events

(***************************************************************************)
(* SpecTemperature: temperature logs are recorded for lots in any status,  *)
(* and statements that update or delete audit events are attempted         *)
(***************************************************************************)
\* the readings of the requests: 3.5 and 5.5 degrees
SampleReadings == {Decimal(35, 0), Decimal(55, 0)}
LogLotIds == {NULL} \cup LotIds
AuditIds == 1..(MaxLogs + 1)

CreateTemperatureLog ==
    \E lot_id \in LogLotIds, temperature_c \in SampleReadings,
       measurement_type \in MeasurementType :
        LET out == create_temperature_log(lot_id, NULL, NULL, temperature_c,
                                          measurement_type)
        IN  /\ Len(out.temperature_logs) <= MaxLogs
            /\ temperature_logs' = out.temperature_logs
            /\ lot_status' = out.lot_status
            /\ audit_events' = out.audit_events
            /\ UNCHANGED <<flow_versions, runs, step_execs, clock, script, lots,
                           buffers, inventory_items, stock_moves,
                           qc_inspections, probe, sessions>>

UpdateAuditEvent ==
    \E id \in AuditIds :
        /\ audit_events' = update_audit_event(id, "EDITED")
        /\ UNCHANGED <<flow_versions, runs, step_execs, clock, script, lots,
                       buffers, inventory_items, stock_moves, lot_status,
                       temperature_logs, qc_inspections, probe, sessions>>

DeleteAuditEvent ==
    \E id \in AuditIds :
        /\ audit_events' = delete_audit_event(id)
        /\ UNCHANGED <<flow_versions, runs, step_execs, clock, script, lots,
                       buffers, inventory_items, stock_moves, lot_status,
                       temperature_logs, qc_inspections, probe, sessions>>

\* lot 1 is in any status, lot 2 is RELEASED
InitTemperature ==
    /\ flow_versions = SeedFlowVersions
    /\ runs = <<>>
    /\ step_execs = {}
    /\ clock = 1
    /\ script = NoScript
    /\ lots = SeedLots
    /\ buffers = SeedBuffers
    /\ inventory_items = <<>>
    /\ stock_moves = <<>>
    /\ \E st \in LotStatus : lot_status = (1 :> st) @@ (2 :> "RELEASED")
    /\ temperature_logs = <<>>
    /\ audit_events = <<>>
    /\ qc_inspections = <<>>
    /\ probe = NoProbe
    /\ sessions = NoSessions

NextTemperature ==
    \/ CreateTemperatureLog
    \/ UpdateAuditEvent
    \/ DeleteAuditEvent

SpecTemperature == InitTemperature /\ [][NextTemperature]_vars

(***************************************************************************)
(* Properties of temperature logs and of the audit log                     *)
(***************************************************************************)
\* the TEMP_VIOLATION_HOLD events of the lot
HoldEvents(events, lot_id) ==
    {i \in DOMAIN events :
        /\ events[i].event_type = "TEMP_VIOLATION_HOLD"
        /\ events[i].entity_type = "lot"
        /\ events[i].entity_id = lot_id}

\* the violating logs of the lot
ViolatingLogs(logs, lot_id) ==
    {i \in DOMAIN logs : logs[i].is_violation /\ logs[i].lot_id = lot_id}

\* the log row a successful insert has stored
Inserted(out) == out.temperature_logs[out.body]

\* what C11 says of one insert
HoldRule(lot_id, temperature_c, measurement_type) ==
    LET out == create_temperature_log(lot_id, NULL, NULL, temperature_c,
                                      measurement_type)
    IN  IsSuccess(out) =>
            IF /\ Inserted(out).is_violation
               /\ lot_id # NULL
               /\ lot_status[lot_id] \in {"RELEASED", "QUARANTINE", "CREATED"}
            THEN /\ out.lot_status[lot_id] = "HOLD"
                 /\ \A l \in DOMAIN lot_status \ {lot_id} :
                       out.lot_status[l] = lot_status[l]
                 /\ Len(out.audit_events) = Len(audit_events) + 1
                 /\ HoldEvents(out.audit_events, lot_id)
                       = HoldEvents(audit_events, lot_id)
                            \cup {Len(out.audit_events)}
            ELSE IF ~Inserted(out).is_violation \/ lot_id = NULL
            THEN out.lot_status = lot_status /\ out.audit_events = audit_events
            ELSE TRUE

\* C11: inserting a violating temperature log with a lot attached whose
\* status is RELEASED, QUARANTINE or CREATED sets that lot to HOLD and
\* appends exactly one TEMP_VIOLATION_HOLD audit event for that lot;
\* inserting a log that is not a violation, or one without a lot, changes no
\* lot status and appends no event.
C11_ViolationHoldsLot ==
    \A lot_id \in LogLotIds, temperature_c \in Readings,
       measurement_type \in MeasurementType :
        HoldRule(lot_id, temperature_c, measurement_type)

\* both lots were put on hold by violating logs, one event each
C11_Witness ==
    /\ lot_status[1] = "HOLD" /\ lot_status[2] = "HOLD"
    /\ Cardinality(HoldEvents(audit_events, 1)) = 1
    /\ Cardinality(HoldEvents(audit_events, 2)) = 1

\* a violating log for a lot outside RELEASED, QUARANTINE and CREATED leaves
\* the statuses alone and appends the event for the lot
KeptStatusRule(lot_id, temperature_c, measurement_type) ==
    LET out == create_temperature_log(lot_id, NULL, NULL, temperature_c,
                                      measurement_type)
    IN  (/\ IsSuccess(out)
         /\ Inserted(out).is_violation
         /\ lot_status[lot_id] \in {"HOLD", "REJECTED", "CONSUMED", "FINISHED"})
        => /\ out.lot_status = lot_status
           /\ Len(out.audit_events) = Len(audit_events) + 1
           /\ SubSeq(out.audit_events, 1, Len(audit_events)) = audit_events
           /\ Len(out.audit_events) \in HoldEvents(out.audit_events, lot_id)

\* C13: a violating temperature log for a lot that is already HOLD,
\* REJECTED, CONSUMED or FINISHED leaves the lot's status unchanged and
\* still appends a TEMP_VIOLATION_HOLD event for the lot; the number of
\* TEMP_VIOLATION_HOLD events equals the number of violating logs that carry
\* a lot.
C13_EventPerViolatingLog ==
    /\ \A lot_id \in DOMAIN lots, temperature_c \in Readings,
          measurement_type \in MeasurementType :
          KeptStatusRule(lot_id, temperature_c, measurement_type)
    /\ \A lot_id \in DOMAIN lots :
          Cardinality(HoldEvents(audit_events, lot_id))
              = Cardinality(ViolatingLogs(temperature_logs, lot_id))
    /\ \A i \in DOMAIN audit_events :
          /\ audit_events[i].event_type = "TEMP_VIOLATION_HOLD"
          /\ audit_events[i].entity_id \in DOMAIN lots

\* a lot that is not in a holdable status has two violating logs and two
\* events, and has kept its status
C13_Witness ==
    /\ lot_status[1] \in {"REJECTED", "CONSUMED", "FINISHED"}
    /\ Cardinality(ViolatingLogs(temperature_logs, 1)) = 2
    /\ Cardinality(HoldEvents(audit_events, 1)) = 2

\* over a step every audit event stays where it is, with its fields
AuditEventsKept ==
    \A i \in DOMAIN audit_events :
        /\ i \in DOMAIN audit_events'
        /\ audit_events'[i] = audit_events[i]

\* an UPDATE or a DELETE of an audit event leaves the log as it is
AuditModificationFails ==
    \A id \in AuditIds :
        /\ update_audit_event(id, "EDITED") = audit_events
        /\ delete_audit_event(id) = audit_events

\* C14: the audit log is append-only: every audit event of an earlier state
\* exists in every later state with identical fields; an attempt to update
\* or delete an audit event fails and leaves the log unchanged.
C14_AuditAppendOnly == []AuditModificationFails /\ [][AuditEventsKept]_vars

\* the log holds two events, the first of which was there before the second
C14_Witness ==
    /\ Len(audit_events) = 2
    /\ audit_events[1].entity_id # audit_events[2].entity_id

(***************************************************************************)
(* QC inspections (qc_inspections.py, schemas/qc_inspection.py, migration  *)
(* phase84_01)                                                             *)
(***************************************************************************)
\* rows the qc_inspections table grows to
MaxInspections == 2

InspectionDecision == {"PASS", "HOLD", "FAIL"}
QCKeys == 1..(MaxInspections + 1)

\* notes are modelled by their length without surrounding blanks, absent
\* notes by length 0
NotesLengths == {0, 10}

\* QCInspectionCreate.validate_notes_for_hold_fail:
\* "decision in (HOLD, FAIL) and (not notes or len(notes.strip()) < 10)"
NotesMissing(decision, notes) == decision \in {"HOLD", "FAIL"} /\ notes < 10

\* foreign keys and check constraints of qc_inspections
InspectionConstraintsOK(inspection) ==
    /\ inspection.lot_id \in DOMAIN lots
    /\ inspection.run_id \in DOMAIN runs
    /\ inspection.decision \in InspectionDecision
    /\ inspection.decision = "PASS" \/ inspection.notes >= 10
    /\ inspection.step_index >= 0 /\ inspection.step_index <= 10

\* uq_qc_inspections_idempotency
InspectionKeyUnique(inspections) ==
    \A i, j \in DOMAIN inspections :
        inspections[i].idempotency_key = inspections[j].idempotency_key => i = j

\* variant: the lookup by idempotency key finds nothing
InspectionsByNoKey(key) == {}

\* select(QCInspection).where(idempotency_key == key): ids of the rows found
InspectionsByKey(key) ==
    {i \in DOMAIN qc_inspections : qc_inspections[i].idempotency_key = key}

RaiseQC(code, detail) ==
    [code |-> code, detail |-> detail, body |-> 0,
     qc_inspections |-> qc_inspections]

create_qc_inspection(key, lot_id, run_id, step_index, decision, notes) ==
    IF NotesMissing(decision, notes) \/ step_index \notin 0..10
    THEN RaiseQC(422, "ValidationError")
    ELSE IF InspectionsByKey(key) # {}
    THEN RaiseQC(409, "Inspection with this idempotency key already exists")
    ELSE LET inspection == [lot_id          |-> lot_id,
                            run_id          |-> run_id,
                            step_index      |-> step_index,
                            decision        |-> decision,
                            notes           |-> notes,
                            inspected_at    |-> clock,
                            idempotency_key |-> key]
             new_inspections == Append(qc_inspections, inspection)
         IN  IF /\ InspectionConstraintsOK(inspection)
                /\ InspectionKeyUnique(new_inspections)
             THEN [code |-> 201, detail |-> "ok",
                   body |-> Len(new_inspections),
                   qc_inspections |-> new_inspections]
             ELSE RaiseQC(500, "IntegrityError")

(***************************************************************************)
(* SpecQC: inspections are recorded for the seeded run while it is         *)
(* started, advanced and completed                                         *)
(***************************************************************************)
UsedQCKeys == {qc_inspections[i].idempotency_key : i \in DOMAIN qc_inspections}
\* the steps the inspections of the requests name: the first and the last
InspectedSteps == {0, FinalStep}
\* lot 1 is stored, lot 3 is not
InspectedLots == {1, 3}

\* variant: a HOLD or FAIL inspection puts its lot on HOLD, as a temperature
\* violation does
HoldLotOnInspection(inspections) ==
    IF /\ inspections # qc_inspections
       /\ inspections[Len(inspections)].decision \in {"HOLD", "FAIL"}
    THEN [lot_status EXCEPT ![inspections[Len(inspections)].lot_id] = "HOLD"]
    ELSE lot_status

\* lots.status after the insert: the handler writes the inspection only and
\* no trigger is created on qc_inspections
LotStatusAfterInspection(inspections) == lot_status

CreateQCInspection ==
    \E key \in RequestKeys(QCKeys, UsedQCKeys), lot_id \in InspectedLots,
       run_id \in InvRunIds, step_index \in InspectedSteps,
       decision \in InspectionDecision, notes \in NotesLengths :
        LET out == create_qc_inspection(key, lot_id, run_id, step_index,
                                        decision, notes)
        IN  /\ Len(out.qc_inspections) <= MaxInspections
            /\ qc_inspections' = out.qc_inspections
            /\ lot_status' = LotStatusAfterInspection(out.qc_inspections)
            /\ UNCHANGED <<flow_versions, runs, step_execs, clock, script, lots,
                           buffers, inventory_items, stock_moves,
                           temperature_logs, audit_events, probe, sessions>>

NextQC ==
    \/ CreateQCInspection
    \/ /\ \/ StartRun
          \/ AdvanceStep
          \/ CompleteRun
       /\ UNCHANGED <<clock, script>>

SpecQC == InitInventory /\ [][NextQC]_vars

(***************************************************************************)
(* Properties of run transitions with respect to the audit log and QC      *)
(***************************************************************************)
\* the audit events of the run
RunEvents(events, run_id) ==
    {i \in DOMAIN events :
        events[i].entity_type = "production_run" /\ events[i].entity_id = run_id}

\* C15: every committed change of a run's status or step index comes with
\* an audit event for that run appended in the same step, and no audit
\* event for a run is appended in a step that leaves the run as it was.
C15_RunChangeAudited ==
    [][\A i \in DOMAIN runs :
          (i \in DOMAIN runs'
             /\ (runs'[i].status # runs[i].status
                   \/ runs'[i].current_step_index # runs[i].current_step_index))
          <=> RunEvents(audit_events', i) # RunEvents(audit_events, i)]_vars

\* the inspections of the run for the step whose decision is HOLD or FAIL
OpenInspections(run_id, step_index) ==
    {i \in DOMAIN qc_inspections :
        /\ qc_inspections[i].run_id = run_id
        /\ qc_inspections[i].step_index = step_index
        /\ qc_inspections[i].decision \in {"HOLD", "FAIL"}}

\* C16: no step advances a run while an inspection with decision HOLD or
\* FAIL is recorded for the run's current step.
C16_AdvanceNeedsQC ==
    [][\A i \in DOMAIN runs :
          (i \in DOMAIN runs'
             /\ runs'[i].current_step_index > runs[i].current_step_index)
          => OpenInspections(i, runs[i].current_step_index) = {}]_vars

\* the inspections of the run, of any step, whose decision is HOLD or FAIL
FailedInspections(run_id) ==
    {i \in DOMAIN qc_inspections :
        /\ qc_inspections[i].run_id = run_id
        /\ qc_inspections[i].decision \in {"HOLD", "FAIL"}}

\* C17: no step completes a run while an inspection of that run with
\* decision HOLD or FAIL is recorded.
C17_CompleteNeedsQC ==
    [][\A i \in DOMAIN runs :
          (i \in DOMAIN runs'
             /\ runs'[i].status = "COMPLETED" /\ runs[i].status # "COMPLETED")
          => FailedInspections(i) = {}]_vars


(***************************************************************************)
(* Flow versions: update, publish and fork (flows.py)                      *)
(***************************************************************************)
MaxVersions == 3
\* runs stored while the flow is edited
MaxPinned == 1

FlowVersionStatus == {"DRAFT", "REVIEW", "PUBLISHED", "DEPRECATED"}

\* node ids of a graph; a parentId of NoParent is None
NodeIds == 1..3
NoParent == 0

FlowNode(id, nodeType, parentId) ==
    [id |-> id, nodeType |-> nodeType, parentId |-> parentId]

FlowEdge(source, target) == [source |-> source, target |-> target]

\* a graph_schema: its nodes and its edges (positions, labels and the
\* viewport play no part in any check)
GraphSchema(nodes, edges) == [nodes |-> nodes, edges |-> edges]

\* GraphSchema().model_dump()
EmptyGraph == GraphSchema({}, {})

\* variant: no reference is looked at
validate_nothing(graph) == TRUE

\* GraphSchema.validate_graph_structure: TRUE when no ValueError is raised
validate_graph_structure(graph) ==
    LET node_ids == {n.id : n \in graph.nodes}
    IN  /\ \A edge \in graph.edges :
              edge.source \in node_ids /\ edge.target \in node_ids
        /\ \A node \in graph.nodes :
              node.parentId # NoParent => node.parentId \in node_ids

\* [n.data.nodeType.value for n in graph.nodes]
NodeTypesOf(graph) == {n.nodeType : n \in graph.nodes}

StartEndNodes == {FlowNode(1, "start", NoParent), FlowNode(2, "end", NoParent)}
StartEndGraph == GraphSchema(StartEndNodes, {FlowEdge(1, 2)})

\* graphs whose references all resolve
SoundGraphs ==
    {EmptyGraph,
     GraphSchema({FlowNode(1, "start", NoParent)}, {}),
     GraphSchema({FlowNode(2, "end", NoParent)}, {}),
     StartEndGraph,
     GraphSchema(StartEndNodes \cup {FlowNode(3, "process", 1)},
                 {FlowEdge(1, 3), FlowEdge(3, 2)})}

\* graphs with a start and an end node and one reference to a node id that
\* is not in the graph: an edge source, an edge target, a parent
DanglingGraphs ==
    {GraphSchema(StartEndNodes, {FlowEdge(3, 2)}),
     GraphSchema(StartEndNodes, {FlowEdge(1, 3)}),
     GraphSchema({FlowNode(1, "start", NoParent), FlowNode(2, "end", 3)},
                 {FlowEdge(1, 2)})}

Graphs == SoundGraphs \cup DanglingGraphs

\* current_user.id
CurrentUser == 1
\* published_at, published_by of a version that was not published
NotPublished == 0

\* flow definition 1 is stored, 2 is not
FlowIds == {1, 2}
VersionNums == 1..(MaxVersions + 1)

FlowVersion(flow_id, version_num, status, graph_schema) ==
    [flow_definition_id |-> flow_id, version_num |-> version_num,
     status |-> status, graph_schema |-> graph_schema,
     published_at |-> NotPublished, published_by |-> NotPublished]

\* UniqueConstraint(flow_definition_id, version_num), ck_flow_versions_status
FlowVersionsConstraintsOK(fvs) ==
    /\ \A a, b \in DOMAIN fvs :
          (/\ fvs[a].flow_definition_id = fvs[b].flow_definition_id
           /\ fvs[a].version_num = fvs[b].version_num) => a = b
    /\ \A a \in DOMAIN fvs : fvs[a].status \in FlowVersionStatus

\* variant: the trigger lets every update through
TriggerFlowVersionPasses(old, new) == TRUE

\* trg_flow_version_immutable, BEFORE UPDATE FOR EACH ROW
TriggerFlowVersionImmutableOK(old, new) ==
    IF old.status = "PUBLISHED" /\ new.status = "DEPRECATED" THEN TRUE
    ELSE old.status # "PUBLISHED"

RaiseFlows(code, detail) ==
    [code |-> code, detail |-> detail, body |-> 0,
     flow_versions |-> flow_versions]

\* db.flush(): updated rows pass the trigger, all rows the constraints
FlushFlows(code, body, new_versions) ==
    IF /\ FlowVersionsConstraintsOK(new_versions)
       /\ \A id \in DOMAIN flow_versions :
             new_versions[id] # flow_versions[id] =>
                 TriggerFlowVersionImmutableOK(flow_versions[id], new_versions[id])
    THEN [code |-> code, detail |-> "ok", body |-> body,
          flow_versions |-> new_versions]
    ELSE RaiseFlows(500, "IntegrityError")

\* select(FlowVersion).where(flow_definition_id == flow_id,
\*                           version_num == version_num)
VersionsByNum(flow_id, version_num) ==
    {id \in DOMAIN flow_versions :
        /\ flow_versions[id].flow_definition_id = flow_id
        /\ flow_versions[id].version_num = version_num}

\* FlowVersion.status is a String(50) column: a loaded row carries a plain
\* str, which has no attribute "value"
StatusHasValue(version) == FALSE

\* the detail f"Cannot ... {version.status.value} version." is built before
\* the HTTPException is raised
RaiseWithStatusValue(version, code, detail) ==
    IF StatusHasValue(version) THEN RaiseFlows(code, detail)
    ELSE RaiseFlows(500, "AttributeError")

\* the id a new row gets (a fresh uuid)
NewVersionId(fvs) == Cardinality(DOMAIN fvs) + 1

\* variant: the graph is written whatever the status of the version, and no
\* trigger guards the table
update_any_version(flow_id, version_num, graph_schema) ==
    LET found == VersionsByNum(flow_id, version_num)
    IN  IF found = {}
        THEN RaiseFlows(404, "Version not found for this flow")
        ELSE LET id == CHOOSE v \in found : TRUE
             IN  [code |-> 200, detail |-> "ok", body |-> id,
                  flow_versions |->
                      [flow_versions EXCEPT ![id].graph_schema = graph_schema]]

update_flow_version(flow_id, version_num, graph_schema) ==
    LET found == VersionsByNum(flow_id, version_num)
    IN  IF ~validate_graph_structure(graph_schema)
        THEN RaiseFlows(422, "Edge or node references non-existent node")
        ELSE IF found = {}
        THEN RaiseFlows(404, "Version not found for this flow")
        ELSE LET id == CHOOSE v \in found : TRUE
             IN  IF flow_versions[id].status # "DRAFT"
                 THEN RaiseWithStatusValue(flow_versions[id], 403,
                                           "Only DRAFT versions can be modified")
                 ELSE FlushFlows(200, id,
                          [flow_versions EXCEPT ![id].graph_schema = graph_schema])

\* variant: the status alone is written and the new draft starts empty
publish_status_only(flow_id, version_num) ==
    LET found == VersionsByNum(flow_id, version_num)
    IN  IF found = {} \/ flow_versions[CHOOSE v \in found : TRUE].status # "DRAFT"
        THEN RaiseFlows(404, "Version not found for this flow")
        ELSE LET id == CHOOSE v \in found : TRUE
                 new_draft == FlowVersion(flow_id, version_num + 1, "DRAFT",
                                          EmptyGraph)
             IN  FlushFlows(200, id,
                     [flow_versions EXCEPT ![id].status = "PUBLISHED"]
                     @@ (NewVersionId(flow_versions) :> new_draft))

\* variant: the version is published and no new draft is created
publish_without_new_draft(flow_id, version_num) ==
    LET found == VersionsByNum(flow_id, version_num)
    IN  IF found = {} \/ flow_versions[CHOOSE v \in found : TRUE].status # "DRAFT"
        THEN RaiseFlows(404, "Version not found for this flow")
        ELSE LET id == CHOOSE v \in found : TRUE
             IN  FlushFlows(200, id,
                     [flow_versions EXCEPT ![id].status = "PUBLISHED",
                                           ![id].published_at = clock,
                                           ![id].published_by = CurrentUser])

publish_flow_version(flow_id, version_num) ==
    LET found == VersionsByNum(flow_id, version_num)
    IN  IF found = {}
        THEN RaiseFlows(404, "Version not found for this flow")
        ELSE LET id == CHOOSE v \in found : TRUE
                 version == flow_versions[id]
             IN  IF version.status # "DRAFT"
                 THEN RaiseWithStatusValue(version, 400,
                                           "Only DRAFT versions can be published")
                 ELSE IF ~validate_graph_structure(version.graph_schema)
                 THEN RaiseFlows(500, "ValidationError")
                 ELSE IF "start" \notin NodeTypesOf(version.graph_schema)
                 THEN RaiseFlows(400, "Flow must have at least one START node")
                 ELSE IF "end" \notin NodeTypesOf(version.graph_schema)
                 THEN RaiseFlows(400, "Flow must have at least one END node")
                 ELSE LET new_draft == FlowVersion(flow_id, version_num + 1, "DRAFT",
                                                   version.graph_schema)
                      IN  FlushFlows(200, id,
                              [flow_versions EXCEPT
                                  ![id].status = "PUBLISHED",
                                  ![id].published_at = clock,
                                  ![id].published_by = CurrentUser]
                              @@ (NewVersionId(flow_versions) :> new_draft))

RECURSIVE MaxVersionNum(_, _)
\* select(func.max(FlowVersion.version_num)) ... or 0
MaxVersionNum(ids, flow_id) ==
    IF ids = {} THEN 0
    ELSE LET id == CHOOSE v \in ids : TRUE
             m == MaxVersionNum(ids \ {id}, flow_id)
             n == IF flow_versions[id].flow_definition_id = flow_id
                  THEN flow_versions[id].version_num ELSE 0
         IN  IF n > m THEN n ELSE m

\* variant: the select finds no draft
NoDraftsOf(flow_id) == {}

\* select(FlowVersion).where(flow_definition_id == flow_id, status == DRAFT)
DraftsOf(flow_id) ==
    {id \in DOMAIN flow_versions :
        /\ flow_versions[id].flow_definition_id = flow_id
        /\ flow_versions[id].status = "DRAFT"}

fork_flow_version(flow_id, version_num) ==
    LET found == VersionsByNum(flow_id, version_num)
    IN  IF found = {}
        THEN RaiseFlows(404, "Version not found for this flow")
        ELSE LET source == flow_versions[CHOOSE v \in found : TRUE]
                 max_version == MaxVersionNum(DOMAIN flow_versions, flow_id)
                 existing_draft == DraftsOf(flow_id)
             IN  IF Cardinality(existing_draft) > 1
                 THEN RaiseFlows(500, "MultipleResultsFound")
                 ELSE IF existing_draft # {}
                 THEN RaiseFlows(409, "A draft version already exists")
                 ELSE LET new_draft == FlowVersion(flow_id, max_version + 1, "DRAFT",
                                                   source.graph_schema)
                      IN  FlushFlows(200, NewVersionId(flow_versions),
                              flow_versions
                              @@ (NewVersionId(flow_versions) :> new_draft))

\* the transaction of a flow handler ends: its outcome is the new state
CommitFlows(out) ==
    /\ Cardinality(DOMAIN out.flow_versions) <= MaxVersions
    /\ flow_versions' = out.flow_versions
    /\ UNCHANGED <<runs, step_execs, clock, script>>
    /\ UNCHANGED <<lots, buffers, inventory_items, stock_moves, qc_tables, probe, sessions>>

UpdateFlowVersion ==
    \E flow_id \in FlowIds, version_num \in VersionNums, graph_schema \in Graphs :
        CommitFlows(update_flow_version(flow_id, version_num, graph_schema))

PublishFlowVersion ==
    \E flow_id \in FlowIds, version_num \in VersionNums :
        CommitFlows(publish_flow_version(flow_id, version_num))

ForkFlowVersion ==
    \E flow_id \in FlowIds, version_num \in VersionNums :
        CommitFlows(fork_flow_version(flow_id, version_num))

(***************************************************************************)
(* SpecFlows: one flow definition under arbitrary update, publish and fork *)
(* requests, with runs created on its versions and driven through their    *)
(* lifecycle                                                               *)
(***************************************************************************)
\* the first version of flow 1 in one of the statuses the table admits;
\* a DRAFT is as create_flow_definition leaves it
SeedFlow(status) ==
    1 :> FlowVersion(1, 1, status,
                     IF status = "DRAFT" THEN EmptyGraph ELSE StartEndGraph)

\* a draft written to the table directly: graph_schema is a JSONB column
\* that no constraint looks into
StoredDraft(graph_schema) == 1 :> FlowVersion(1, 1, "DRAFT", graph_schema)

InitFlows ==
    /\ flow_versions \in {SeedFlow(status) : status \in FlowVersionStatus}
                         \cup {StoredDraft(graph) : graph \in DanglingGraphs}
    /\ runs = <<>>
    /\ step_execs = {}
    /\ clock = 1
    /\ script = NoScript
    /\ lots = SeedLots
    /\ buffers = SeedBuffers
    /\ inventory_items = <<>>
    /\ stock_moves = <<>>
    /\ lot_status = SeedLotStatus
    /\ temperature_logs = <<>>
    /\ audit_events = <<>>
    /\ qc_inspections = <<>>
    /\ probe = NoProbe
    /\ sessions = NoSessions

NextFlows ==
    \/ UpdateFlowVersion
    \/ PublishFlowVersion
    \/ ForkFlowVersion
    \/ Next /\ Len(runs') <= MaxPinned

SpecFlows == InitFlows /\ [][NextFlows]_vars


(***************************************************************************)
(* C18: flow immutability                                                  *)
(***************************************************************************)
PublishedVersions == {id \in DOMAIN flow_versions : flow_versions[id].status = "PUBLISHED"}

\* an update request against a PUBLISHED version is answered 403 and writes
\* nothing
UpdateForbidden ==
    \A flow_id \in FlowIds, version_num \in VersionNums, graph_schema \in SoundGraphs :
        LET out == update_flow_version(flow_id, version_num, graph_schema)
        IN  VersionsByNum(flow_id, version_num) \cap PublishedVersions # {} =>
                /\ out.code = 403
                /\ out.flow_versions = flow_versions

\* a step keeps the graph of every PUBLISHED version and moves its status
\* nowhere but to DEPRECATED
PublishedKept ==
    \A id \in PublishedVersions :
        /\ id \in DOMAIN flow_versions'
        /\ flow_versions'[id].graph_schema = flow_versions[id].graph_schema
        /\ flow_versions'[id].status \in {"PUBLISHED", "DEPRECATED"}

\* C18: once a FlowVersion is PUBLISHED its graph_schema never changes
\* again: every update request against it is rejected as forbidden (403) and
\* leaves it unchanged, and its status changes to nothing but DEPRECATED.
C18_PublishedImmutable == []UpdateForbidden /\ [][PublishedKept]_vars



(***************************************************************************)
(* C19: flow-version pinning                                               *)
(***************************************************************************)
\* a step keeps the flow_version_id of every stored run, and keeps the
\* graph_schema of the version the run is pinned to
PinKept ==
    \A i \in DOMAIN runs :
        /\ i \in DOMAIN runs'
        /\ runs'[i].flow_version_id = runs[i].flow_version_id
        /\ runs[i].flow_version_id \in DOMAIN flow_versions'
        /\ flow_versions'[runs[i].flow_version_id].graph_schema
               = flow_versions[runs[i].flow_version_id].graph_schema

\* C19: the flow_version_id of a run is fixed at creation and left unchanged
\* by start, advance, hold, resume, complete and abort, and the graph_schema
\* of the pinned version stays what it was when the run was created under
\* every sequence of draft updates, publishes and forks of the same flow.
C19_PinnedVersionKept == [][PinKept]_vars

\* a run has gone through its lifecycle while a later version of the same
\* flow was edited to another graph and published
C19_Witness ==
    \E i \in DOMAIN runs, later \in DOMAIN flow_versions :
        LET pinned == flow_versions[runs[i].flow_version_id]
        IN  /\ runs[i].status = "COMPLETED"
            /\ flow_versions[later].flow_definition_id = pinned.flow_definition_id
            /\ flow_versions[later].version_num > pinned.version_num
            /\ flow_versions[later].status = "PUBLISHED"
            /\ flow_versions[later].graph_schema # pinned.graph_schema



(***************************************************************************)
(* Concurrent create_run requests (runs.py, READ COMMITTED transactions)   *)
(*                                                                         *)
(* A request is served by a worker in its own session.  Its statements     *)
(* read the committed rows; its INSERT is checked against the unique       *)
(* indexes at db.flush() and becomes visible to the other sessions when    *)
(* get_db commits.                                                         *)
(***************************************************************************)
\* the row create_run adds
NewRun(key, fv) ==
    [run_code           |-> generate_run_code(runs),
     flow_version_id    |-> fv,
     status             |-> "IDLE",
     current_step_index |-> 0,
     idempotency_key    |-> key,
     started_at         |-> clock,
     completed_at       |-> NULL,
     ended_at           |-> NULL]

\* uq_production_runs_idempotency_key; run_code is declared unique
UniqueConflict(a, b) ==
    \/ a.idempotency_key = b.idempotency_key
    \/ a.run_code = b.run_code

\* a committed row holds the index entry the insert needs
ConflictsCommitted(row) == \E i \in DOMAIN runs : UniqueConflict(runs[i], row)

\* another open transaction holds it: the insert waits for that transaction
ConflictsPending(p, row) ==
    \E q \in Sessions \ {p} :
        /\ sessions[q].pc = "flushed"
        /\ UniqueConflict(sessions[q].pending[1], row)

\* the request is answered
Respond(p, code, body) ==
    sessions' = [sessions EXCEPT ![p].pc = "done", ![p].pending = <<>>,
                                 ![p].code = code, ![p].body = body]

\* keys of stored rows and of requests in flight
KeysInUse == (UsedRunKeys \cup {sessions[p].key : p \in Sessions}) \ {0}

\* requests that may still add a row
OpenRequests == {p \in Sessions : sessions[p].pc \in {"looked", "flushed"}}

\* a request arrives and the handler runs its idempotency lookup
LookupRun(p) ==
    \E key \in RequestKeys(Keys, KeysInUse), fv \in FlowVersionIds :
        /\ sessions[p].pc \in {"idle", "done"}
        /\ Len(runs) + Cardinality(OpenRequests) < MaxRuns
        /\ sessions' = [sessions EXCEPT ![p] =
               [pc |-> "looked", key |-> key, fv |-> fv,
                existing |-> RunsByIdempotencyKey(key), pending |-> <<>>,
                code |-> 0, body |-> 0]]
        /\ UNCHANGED runs

\* the handler goes on from the lookup to db.flush()
InsertRun(p) ==
    LET req == sessions[p]
        row == NewRun(req.key, req.fv)
    IN  /\ req.pc = "looked"
        /\ IF req.existing # {}
           THEN Respond(p, 201, CHOOSE i \in req.existing : TRUE)
           ELSE IF req.fv \notin DOMAIN flow_versions
           THEN Respond(p, 404, 0)
           ELSE IF VersionNotPublished(flow_versions[req.fv])
           THEN Respond(p, 400, 0)
           ELSE IF ConflictsCommitted(row)
           THEN Respond(p, 500, 0)
           ELSE /\ ~ConflictsPending(p, row)
                /\ sessions' = [sessions EXCEPT ![p].pc = "flushed",
                                                ![p].pending = <<row>>]
        /\ UNCHANGED runs

\* get_db commits the session: the row is stored and the response sent
CommitRun(p) ==
    /\ sessions[p].pc = "flushed"
    /\ runs' = Append(runs, sessions[p].pending[1])
    /\ Respond(p, 201, Len(runs) + 1)

RaceFrame ==
    /\ UNCHANGED <<flow_versions, step_execs, clock, script>>
    /\ UNCHANGED <<lots, buffers, inventory_items, stock_moves, qc_tables, probe>>

Lookup == \E p \in Sessions : LookupRun(p) /\ RaceFrame
Insert == \E p \in Sessions : InsertRun(p) /\ RaceFrame
Commit == \E p \in Sessions : CommitRun(p) /\ RaceFrame

NextRace == Lookup \/ Insert \/ Commit

SpecRace == Init /\ [][NextRace]_vars

(***************************************************************************)
(* C20: concurrent requests with one idempotency key                       *)
(***************************************************************************)
\* both requests carry the key, both looked it up before either committed
\* (neither lookup found a row), both name a PUBLISHED version, and both
\* are answered
RacedOnKey(p, q) ==
    /\ p # q
    /\ sessions[p].pc = "done" /\ sessions[q].pc = "done"
    /\ sessions[p].key = sessions[q].key
    /\ sessions[p].existing = {} /\ sessions[q].existing = {}
    /\ \A r \in {p, q} :
          /\ sessions[r].fv \in DOMAIN flow_versions
          /\ flow_versions[sessions[r].fv].status = "PUBLISHED"

\* C20: when two create requests with the same idempotency key both look the
\* key up before either commits, exactly one row is persisted and both are
\* answered with that row: the loser replays the winner's row with a 201
\* instead of failing.
C20_ConcurrentReplay ==
    \A p, q \in Sessions :
        RacedOnKey(p, q) =>
            /\ Cardinality(RunsByIdempotencyKey(sessions[p].key)) = 1
            /\ sessions[p].code = 201 /\ sessions[q].code = 201
            /\ sessions[p].body = sessions[q].body
            /\ sessions[p].body \in RunsByIdempotencyKey(sessions[p].key)

(***************************************************************************)
(* Concurrent consume and ship requests (inventory.py, READ COMMITTED      *)
(* transactions)                                                           *)
(*                                                                         *)
(* The handler selects the item without a lock and computes the new        *)
(* column value in Python; db.flush() sends "UPDATE inventory_items SET    *)
(* <changed column> = <value> WHERE id = <id>".  The UPDATE waits for an   *)
(* open transaction that wrote the row, so the writes of two sessions to   *)
(* one item are serial: flush and commit are one step.                     *)
(***************************************************************************)
\* stock moves stored while requests race
MaxRaceMoves == 3
RaceKeys == 1..(MaxRaceMoves + 1)
TakeTypes == {"CONSUME", "SHIP"}

\* the lot and the buffer the racing requests name
RaceLot == 1
RaceBuffer == 1

\* a worker without a request
IdleTake ==
    [pc |-> "idle", key |-> 0, quantity_kg |-> 0, move_type |-> "NONE",
     item |-> 0, seen |-> 0, code |-> 0, body |-> 0]

\* keys of stored moves and of requests in flight
MoveKeysInUse == (UsedMoveKeys \cup {sessions[p].key : p \in Sessions}) \ {0}

\* takes that may still add a move
OpenTakes == {p \in Sessions : sessions[p].pc = "read"}

\* the request is answered and its session closed
RespondTake(p, code, body) ==
    sessions' = [sessions EXCEPT ![p] =
                    [IdleTake EXCEPT !.pc = "done", !.code = code, !.body = body]]

\* a consume or ship request arrives; the handler runs up to the quantity
\* check on the rows it reads
ReadItem(p) ==
    \E key \in RequestKeys(RaceKeys, MoveKeysInUse), quantity_kg \in Quantities,
       move_type \in TakeTypes :
        LET req == [IdleTake EXCEPT !.key = key, !.quantity_kg = quantity_kg,
                                    !.move_type = move_type]
            existing == check_idempotency(key)
            found == ActiveItems(RaceLot, RaceBuffer)
        IN  /\ sessions[p].pc \in {"idle", "done"}
            /\ Len(stock_moves) + Cardinality(OpenTakes) < MaxRaceMoves
            /\ IF existing # {}
               THEN RespondTake(p, 201, CHOOSE i \in existing : TRUE)
               ELSE IF Cardinality(found) > 1
               THEN RespondTake(p, 500, 0)
               ELSE IF found = {}
               THEN RespondTake(p, 400, 0)
               ELSE LET id == CHOOSE i \in found : TRUE
                    IN  IF InsufficientQuantity(inventory_items[id], quantity_kg)
                        THEN RespondTake(p, 400, 0)
                        ELSE sessions' = [sessions EXCEPT ![p] =
                                 [req EXCEPT !.pc = "read", !.item = id,
                                             !.seen = inventory_items[id].quantity_kg]]
            /\ UNCHANGED <<inventory_items, stock_moves>>

\* the UPDATE db.flush() sends for the item: the column the handler changed,
\* with the value it computed from the row it had read
UpdateItem(stored, seen, quantity_kg) ==
    IF seen = quantity_kg
    THEN [stored EXCEPT !.exited_at = clock]
    ELSE [stored EXCEPT !.quantity_kg = seen - quantity_kg]

\* db.flush() and the commit of get_db
WriteItem(p) ==
    LET req == sessions[p]
        move == StockMove(RaceLot, RaceBuffer, NULL, req.quantity_kg,
                          req.move_type, req.key)
    IN  /\ req.pc = "read"
        /\ IF MoveKeyUnique(Append(stock_moves, move))
           THEN /\ inventory_items' =
                      [inventory_items EXCEPT
                          ![req.item] = UpdateItem(@, req.seen, req.quantity_kg)]
                /\ stock_moves' = Append(stock_moves, move)
                /\ RespondTake(p, 201, Len(stock_moves) + 1)
           ELSE /\ RespondTake(p, 500, 0)
                /\ UNCHANGED <<inventory_items, stock_moves>>

TakeFrame ==
    /\ UNCHANGED <<flow_versions, runs, step_execs, clock, script>>
    /\ UNCHANGED <<lots, buffers, qc_tables, probe>>

ReadTake == \E p \in Sessions : ReadItem(p) /\ TakeFrame
WriteTake == \E p \in Sessions : WriteItem(p) /\ TakeFrame

InitTakeRace ==
    /\ flow_versions = SeedFlowVersions
    /\ runs = <<SeedRun>>
    /\ step_execs = {}
    /\ clock = 1
    /\ script = NoScript
    /\ lots = SeedLots
    /\ buffers = SeedBuffers
    /\ inventory_items = <<>>
    /\ stock_moves = <<>>
    /\ lot_status = SeedLotStatus
    /\ temperature_logs = <<>>
    /\ audit_events = <<>>
    /\ qc_inspections = <<>>
    /\ probe = NoProbe
    /\ sessions = [p \in Sessions |-> IdleTake]

\* stock of the lot arrives in the buffer
ReceiveStock ==
    \E key \in RequestKeys(RaceKeys, MoveKeysInUse), quantity_kg \in Quantities :
        /\ CommitInv(receive_to_buffer(key, RaceLot, RaceBuffer, 1, quantity_kg))
        /\ Len(stock_moves) + Cardinality(OpenTakes) < MaxRaceMoves
        /\ UNCHANGED <<clock, script>>

NextTakeRace ==
    \/ ReceiveStock
    \/ ReadTake
    \/ WriteTake

SpecTakeRace == InitTakeRace /\ [][NextTakeRace]_vars

(***************************************************************************)
(* C21: concurrent takes from one inventory item                           *)
(***************************************************************************)
\* what is open of a lot is what was received minus what was taken out
StockConserved ==
    \A lot_id \in LotIds :
        SumOpen(inventory_items, lot_id) =
            SumMoves(stock_moves, lot_id, "RECEIVE")
            - SumMoves(stock_moves, lot_id, "CONSUME")
            - SumMoves(stock_moves, lot_id, "SHIP")

\* a take that reports success finds the item open and holding at least the
\* quantity it takes: the request that lost the race fails instead
TakeWithinStock ==
    \A p \in Sessions :
        (/\ sessions[p].pc = "read"
         /\ sessions'[p].pc = "done"
         /\ sessions'[p].code = 201) =>
            /\ inventory_items[sessions[p].item].exited_at = NULL
            /\ inventory_items[sessions[p].item].quantity_kg >= sessions[p].quantity_kg

\* C21: when two consume/ship requests with different keys run concurrently
\* against one open item and together ask for more than it holds, at most
\* one succeeds; in every interleaving no more is taken out of the item than
\* it held and quantity conservation of the lot holds.
C21_ConcurrentTakes == []StockConserved /\ [][TakeWithinStock]_vars

(***************************************************************************)
(* Concurrent advance requests (runs.py, READ COMMITTED transactions)      *)
(*                                                                         *)
(* The handler selects the run without a lock; db.flush() sends the UPDATE *)
(* of the run with the index computed from the row read, the UPDATE of the *)
(* current step and the INSERT of the next step.  The UPDATE of the run    *)
(* waits for an open transaction that wrote the row, so the writes of two  *)
(* sessions to one run are serial: flush and commit are one step.          *)
(***************************************************************************)
\* a worker without a request
IdleAdvance == [pc |-> "idle", run_id |-> 0, seen |-> 0, code |-> 0]

\* the request is answered and its session closed
RespondAdvance(p, code) ==
    sessions' = [sessions EXCEPT ![p] = [IdleAdvance EXCEPT !.pc = "done", !.code = code]]

\* an advance request arrives; the handler runs its guards on the run it
\* reads
ReadRun(p) ==
    \E run_id \in InvRunIds :
        /\ sessions[p].pc \in {"idle", "done"}
        /\ IF run_id \notin DOMAIN runs
           THEN RespondAdvance(p, 404)
           ELSE IF runs[run_id].status # "RUNNING"
           THEN RespondAdvance(p, 400)
           ELSE IF AtFinalStep(runs[run_id])
           THEN RespondAdvance(p, 400)
           ELSE sessions' = [sessions EXCEPT ![p] =
                    [IdleAdvance EXCEPT !.pc = "read", !.run_id = run_id,
                                        !.seen = runs[run_id].current_step_index]]
        /\ UNCHANGED <<runs, step_execs>>

\* variant: no unique index on (run_id, step_index)
StepNeverTaken(run_id, idx) == FALSE

\* uq_run_step_executions_run_step: a stored row holds the index entry
StepTaken(run_id, idx) ==
    \E s \in step_execs : s.run_id = run_id /\ s.step_index = idx

\* db.flush() and the commit of get_db
WriteRun(p) ==
    LET req == sessions[p]
        next_step == [run_id       |-> req.run_id,
                      step_index   |-> NextStepIndex(req.seen),
                      status       |-> "IN_PROGRESS",
                      started_at   |-> clock,
                      completed_at |-> NULL]
        out == Flush(200, req.run_id,
                     [runs EXCEPT
                         ![req.run_id].current_step_index = NextStepIndex(req.seen)],
                     CompleteStep(step_execs, req.run_id, req.seen) \cup {next_step})
    IN  /\ req.pc = "read"
        /\ IF StepTaken(req.run_id, NextStepIndex(req.seen))
           THEN /\ RespondAdvance(p, 500)
                /\ UNCHANGED <<runs, step_execs>>
           ELSE /\ runs' = out.runs
                /\ step_execs' = out.step_execs
                /\ RespondAdvance(p, out.code)

AdvanceFrame ==
    /\ UNCHANGED <<flow_versions, clock, script, lots, buffers>>
    /\ UNCHANGED <<inventory_items, stock_moves, qc_tables, probe>>

ReadAdvance == \E p \in Sessions : ReadRun(p) /\ AdvanceFrame
WriteAdvance == \E p \in Sessions : WriteRun(p) /\ AdvanceFrame

\* the stored run is IDLE; id 2 is not a stored run
InitAdvanceRace ==
    /\ flow_versions = SeedFlowVersions
    /\ runs = <<SeedRun>>
    /\ step_execs = {}
    /\ clock = 1
    /\ script = NoScript
    /\ lots = SeedLots
    /\ buffers = SeedBuffers
    /\ inventory_items = <<>>
    /\ stock_moves = <<>>
    /\ lot_status = SeedLotStatus
    /\ temperature_logs = <<>>
    /\ audit_events = <<>>
    /\ qc_inspections = <<>>
    /\ probe = NoProbe
    /\ sessions = [p \in Sessions |-> IdleAdvance]

\* a start request, served alone
StartSeedRun ==
    /\ \E run_id \in InvRunIds : CommitRuns(start_run(run_id))
    /\ UNCHANGED <<clock, script>>

NextAdvanceRace ==
    \/ StartSeedRun
    \/ ReadAdvance
    \/ WriteAdvance

SpecAdvanceRace == InitAdvanceRace /\ [][NextAdvanceRace]_vars

(***************************************************************************)
(* C22: concurrent advances of one run                                     *)
(***************************************************************************)
\* a RUNNING run has exactly one step row for each index up to its own
OneRowPerStep ==
    \A i \in DOMAIN runs :
        runs[i].status = "RUNNING" =>
            /\ \A k \in 0..runs[i].current_step_index :
                  Cardinality({s \in step_execs :
                                  s.run_id = i /\ s.step_index = k}) = 1
            /\ \A s \in step_execs :
                  s.run_id = i => s.step_index <= runs[i].current_step_index

\* the session whose advance is answered in this step, and its answer
Answered(p) == sessions[p].pc = "read" /\ sessions'[p].pc = "done"

\* the index of a run grows by one in a step that answers an advance of it
\* with success, and in no other step; an advance computed from a stale
\* index is answered with an error
AdvanceCounted ==
    /\ \A i \in DOMAIN runs :
          runs'[i].current_step_index =
              runs[i].current_step_index
              + Cardinality({p \in Sessions :
                                /\ Answered(p)
                                /\ sessions[p].run_id = i
                                /\ sessions'[p].code = 200})
    /\ \A p \in Sessions :
          (Answered(p) /\ sessions[p].seen # runs[sessions[p].run_id].current_step_index)
              => sessions'[p].code \notin {200, 201}

\* C22: when two advance requests run concurrently on one RUNNING run at
\* step k, in every interleaving the committed current_step_index grows by
\* exactly the number of requests answered with success, there is exactly
\* one RunStepExecution row per index 0..current_step_index, and the request
\* that lost the race is answered with an error.
C22_ConcurrentAdvance == []OneRowPerStep /\ [][AdvanceCounted]_vars

\* both sessions read the run at step 0; one advanced it, the other was
\* answered with an error
C22_Witness ==
    \E p, q \in Sessions :
        /\ sessions[p].pc = "done" /\ sessions[p].code = 200
        /\ sessions[q].pc = "done" /\ sessions[q].code = 500
        /\ runs[1].current_step_index = 1

(***************************************************************************)
(* C23, C24: a QC inspection request with a used idempotency key           *)
(***************************************************************************)
\* the requests of SpecQC are drawn from these sets
QCRequests ==
    [key : QCKeys, lot_id : InspectedLots, run_id : InvRunIds,
     step_index : InspectedSteps, decision : InspectionDecision,
     notes : NotesLengths]

QCOutcome(req) ==
    create_qc_inspection(req.key, req.lot_id, req.run_id, req.step_index,
                         req.decision, req.notes)

\* the body of the request passes QCInspectionCreate
SchemaValid(req) ==
    ~NotesMissing(req.decision, req.notes) /\ req.step_index \in 0..10

\* C23: a create_qc_inspection request whose idempotency key was already
\* used returns the recorded inspection as a success replay (same inspection
\* id) and creates no second row.
C23_InspectionReplay ==
    \A req \in QCRequests :
        (SchemaValid(req) /\ InspectionsByKey(req.key) # {}) =>
            /\ IsSuccess(QCOutcome(req))
            /\ QCOutcome(req).body \in InspectionsByKey(req.key)
            /\ QCOutcome(req).qc_inspections = qc_inspections

\* the table holds at most one inspection per idempotency key
OneInspectionPerKey ==
    \A i, j \in DOMAIN qc_inspections :
        qc_inspections[i].idempotency_key = qc_inspections[j].idempotency_key
            => i = j

NotesText(body, blanks) == [absent |-> FALSE, body |-> body, blanks |-> blanks]
\* the request has no notes field
NoNotes == [absent |-> TRUE, body |-> 0, blanks |-> 0]

\* len(notes)
NotesLen(notes) == notes.body + notes.blanks
\* len(notes.strip())
StrippedLen(notes) == notes.body

\* "decision in (HOLD, FAIL) and (not notes or len(notes.strip()) < 10)":
\* TRUE when the validator raises
validate_notes_for_hold_fail(decision, notes) ==
    /\ decision \in {"HOLD", "FAIL"}
    /\ \/ notes.absent
       \/ NotesLen(notes) = 0
       \/ StrippedLen(notes) < 10

\* Field(None, max_length=...): TRUE when the field passes
WithinMaxLength(notes, max_length) ==
    notes.absent \/ NotesLen(notes) <= max_length

\* the body passes QCDecisionCreate (legacy endpoint POST /qc-decisions)
QCDecisionCreate(decision, notes) ==
    /\ WithinMaxLength(notes, 1000)
    /\ ~validate_notes_for_hold_fail(decision, notes)

\* the body passes QCInspectionCreate (POST /qc-inspections)
QCInspectionCreate(decision, notes) ==
    /\ WithinMaxLength(notes, 2000)
    /\ ~validate_notes_for_hold_fail(decision, notes)

\* lengths tried: within Margin of each limit, and the empty text
Margin == 1
\* surrounding blanks tried
MaxBlanks == 1
NoteBodies ==
    {0} \cup {n \in 0..(2000 + Margin) :
                 \E limit \in {10, 1000, 2000} :
                     n >= limit - Margin /\ n <= limit + Margin}
NotesInputs ==
    {NoNotes} \cup {NotesText(body, blanks) : body \in NoteBodies, blanks \in 0..MaxBlanks}

\* a submission about to be validated by both schemas
InitNotes ==
    /\ flow_versions = SeedFlowVersions
    /\ runs = <<>>
    /\ step_execs = {}
    /\ clock = 1
    /\ script = NoScript
    /\ lots = SeedLots
    /\ buffers = SeedBuffers
    /\ inventory_items = <<>>
    /\ stock_moves = <<>>
    /\ lot_status = SeedLotStatus
    /\ temperature_logs = <<>>
    /\ audit_events = <<>>
    /\ qc_inspections = <<>>
    /\ sessions = NoSessions
    /\ \E decision \in InspectionDecision, notes \in NotesInputs :
          probe = [decision |-> decision, notes |-> notes, called |-> FALSE,
                   decision_ok |-> FALSE, inspection_ok |-> FALSE]

ValidateNotes ==
    /\ ~probe.called
    /\ probe' = [probe EXCEPT
                    !.called = TRUE,
                    !.decision_ok = QCDecisionCreate(probe.decision, probe.notes),
                    !.inspection_ok = QCInspectionCreate(probe.decision, probe.notes)]
    /\ UNCHANGED <<flow_versions, runs, step_execs, clock, script, lots,
                   buffers, inventory_items, stock_moves, qc_tables, sessions>>

NextNotes == ValidateNotes

SpecNotes == InitNotes /\ [][NextNotes]_vars

(***************************************************************************)
(* C25: QC notes requirement                                               *)
(***************************************************************************)
\* the notes are absent or have fewer than 10 characters
ShortNotes(notes) == notes.absent \/ NotesLen(notes) < 10

\* C25: on the legacy QC-decision endpoint and on the QC-inspection
\* endpoint, a HOLD or FAIL submission is rejected when notes are absent or
\* shorter than 10 characters and accepted when notes have 10 or more
\* characters; a PASS submission is accepted with or without notes; the two
\* endpoints accept and reject the same (decision, notes) pairs.
C25_NotesRequirement ==
    probe.called =>
        /\ probe.decision_ok = probe.inspection_ok
        /\ probe.decision = "PASS" => probe.decision_ok /\ probe.inspection_ok
        /\ probe.decision \in {"HOLD", "FAIL"} =>
              /\ probe.decision_ok = ~ShortNotes(probe.notes)
              /\ probe.inspection_ok = ~ShortNotes(probe.notes)

(***************************************************************************)
(* C26: frame of a QC inspection                                           *)
(***************************************************************************)
\* a step that records an inspection keeps the lots' statuses, the runs with
\* their step rows and the audit log
InspectionFrame ==
    qc_inspections' # qc_inspections =>
        /\ Len(qc_inspections') = Len(qc_inspections) + 1
        /\ SubSeq(qc_inspections', 1, Len(qc_inspections)) = qc_inspections
        /\ lot_status' = lot_status
        /\ runs' = runs
        /\ step_execs' = step_execs
        /\ audit_events' = audit_events

\* C26: recording a QC inspection, whatever its decision, changes only the
\* set of QCInspection rows: the status of the inspected lot, the status and
\* step index of the run and the audit log are left unchanged.
C26_InspectionFrame == [][InspectionFrame]_vars

\* a HOLD and a FAIL inspection of lot 1 are stored for the running run and
\* the lot is as it was created
C26_Witness ==
    /\ \E i, j \in DOMAIN qc_inspections :
          /\ qc_inspections[i].decision = "HOLD" /\ qc_inspections[i].lot_id = 1
          /\ qc_inspections[j].decision = "FAIL" /\ qc_inspections[j].lot_id = 1
    /\ lot_status[1] = "CREATED"
    /\ runs[1].status = "RUNNING"
    /\ audit_events = <<>>

(***************************************************************************)
(* C27: what publish_flow_version rejects                                  *)
(***************************************************************************)
\* an edge source, an edge target or a parent of the graph is a node id
\* that is not in the graph
HasDanglingReference(graph) ==
    \/ \E edge \in graph.edges :
          \/ \A n \in graph.nodes : n.id # edge.source
          \/ \A n \in graph.nodes : n.id # edge.target
    \/ \E node \in graph.nodes :
          /\ node.parentId # NoParent
          /\ \A n \in graph.nodes : n.id # node.parentId

HasNodeOfType(graph, type) == \E n \in graph.nodes : n.nodeType = type

\* the stored version must not be published
NotPublishable(version) ==
    \/ version.status # "DRAFT"
    \/ ~HasNodeOfType(version.graph_schema, "start")
    \/ ~HasNodeOfType(version.graph_schema, "end")
    \/ HasDanglingReference(version.graph_schema)

\* a publish request against such a version is refused and writes nothing
PublishRejected ==
    \A flow_id \in FlowIds, version_num \in VersionNums :
        LET out == publish_flow_version(flow_id, version_num)
        IN  \A id \in DOMAIN flow_versions :
                (/\ flow_versions[id].flow_definition_id = flow_id
                 /\ flow_versions[id].version_num = version_num
                 /\ NotPublishable(flow_versions[id]))
                => /\ ~IsSuccess(out)
                   /\ out.flow_versions = flow_versions

\* a step that turns a version PUBLISHED, or adds a version next to such a
\* version, starts from a publishable one
PublishedFromSound ==
    \A id \in DOMAIN flow_versions :
        NotPublishable(flow_versions[id]) =>
            /\ id \in DOMAIN flow_versions'
            /\ flow_versions'[id].status = flow_versions[id].status
            /\ \A new \in DOMAIN flow_versions' \ DOMAIN flow_versions :
                  flow_versions'[new].version_num
                      # flow_versions[id].version_num + 1
                  \/ flow_versions[id].status # "DRAFT"

PublishEffect ==
    \A flow_id \in FlowIds, version_num \in VersionNums :
        LET out == publish_flow_version(flow_id, version_num)
            added == DOMAIN out.flow_versions \ DOMAIN flow_versions
        IN  IsSuccess(out) =>
              \E id \in DOMAIN flow_versions :
                /\ flow_versions[id].flow_definition_id = flow_id
                /\ flow_versions[id].version_num = version_num
                /\ flow_versions[id].status = "DRAFT"
                /\ out.flow_versions[id].status = "PUBLISHED"
                /\ out.flow_versions[id].published_at # NotPublished
                /\ out.flow_versions[id].published_by # NotPublished
                /\ out.flow_versions[id].graph_schema
                       = flow_versions[id].graph_schema
                /\ Cardinality(added) = 1
                /\ \A new \in added :
                      /\ out.flow_versions[new].flow_definition_id = flow_id
                      /\ out.flow_versions[new].version_num = version_num + 1
                      /\ out.flow_versions[new].status = "DRAFT"
                      /\ out.flow_versions[new].graph_schema
                             = flow_versions[id].graph_schema
                /\ \A other \in DOMAIN flow_versions \ {id} :
                      out.flow_versions[other] = flow_versions[other]

\* a step keeps the graph of every version that was published
StampedKept ==
    \A id \in DOMAIN flow_versions :
        flow_versions[id].published_at # NotPublished =>
            /\ id \in DOMAIN flow_versions'
            /\ flow_versions'[id].graph_schema = flow_versions[id].graph_schema
            /\ flow_versions'[id].published_at = flow_versions[id].published_at

\* C28: a successful publish of DRAFT version N of a flow definition sets N
\* to PUBLISHED with published_at and published_by set and creates exactly
\* one new version, N+1 in DRAFT status, whose graph_schema equals the graph
\* just published; later edits of draft N+1 do not alter the graph of N.
C28_PublishEffect == []PublishEffect /\ [][StampedKept]_vars

\* version 1 was published, and draft 2, which started as its copy, has been
\* edited to another graph since
C28_Witness ==
    \E n, m \in DOMAIN flow_versions :
        /\ flow_versions[n].version_num = 1
        /\ flow_versions[n].status = "PUBLISHED"
        /\ flow_versions[n].published_at # NotPublished
        /\ flow_versions[n].published_by = CurrentUser
        /\ flow_versions[m].flow_definition_id = flow_versions[n].flow_definition_id
        /\ flow_versions[m].version_num = 2
        /\ flow_versions[m].status = "DRAFT"
        /\ flow_versions[m].graph_schema # flow_versions[n].graph_schema

(***************************************************************************)
(* Concurrent publish and fork requests (flows.py, READ COMMITTED          *)
(* transactions): each select reads the committed rows of its moment; the  *)
(* flush updates the flow_definitions row first, so the writes of two      *)
(* requests on one flow are serialised and end with their commit           *)
(***************************************************************************)
IdleFlowOp ==
    [pc |-> "idle", flow_id |-> 0, id |-> 0, graph_schema |-> EmptyGraph,
     max_version |-> 0, code |-> 0]

RespondFlow(p, code) ==
    sessions' = [sessions EXCEPT ![p] = [IdleFlowOp EXCEPT !.pc = "done", !.code = code]]

\* the ids of the flow definitions that are stored
StoredFlows == {flow_versions[id].flow_definition_id : id \in DOMAIN flow_versions}

\* create_flow_definition: a new flow definition with its draft version 1
create_flow_definition(flow_id) ==
    FlushFlows(201, flow_id,
               flow_versions
               @@ (NewVersionId(flow_versions)
                       :> FlowVersion(flow_id, 1, "DRAFT", EmptyGraph)))

CreateFlowDefinition ==
    \E flow_id \in FlowIds \ StoredFlows :
        CommitFlows(create_flow_definition(flow_id))

\* publish_flow_version up to the flush: the version is read and checked
ReadDraftToPublish(p) ==
    /\ sessions[p].pc \in {"idle", "done"}
    /\ \E flow_id \in StoredFlows, version_num \in VersionNums :
          LET found == VersionsByNum(flow_id, version_num)
              id == CHOOSE v \in found : TRUE
              checked == publish_flow_version(flow_id, version_num)
          IN  IF ~IsSuccess(checked) /\ checked.detail # "IntegrityError"
              THEN RespondFlow(p, checked.code)
              ELSE sessions' = [sessions EXCEPT ![p] =
                       [IdleFlowOp EXCEPT !.pc = "publish", !.flow_id = flow_id,
                                          !.id = id,
                                          !.graph_schema = flow_versions[id].graph_schema]]
    /\ UNCHANGED flow_versions

\* the flush and commit of publish_flow_version: the UPDATE of the version
\* row passes the trigger with the row as it is committed now, the INSERT of
\* the draft the unique constraint
WritePublished(p) ==
    /\ sessions[p].pc = "publish"
    /\ LET id == sessions[p].id
           published == [flow_versions[id] EXCEPT !.status = "PUBLISHED",
                                                  !.published_at = clock,
                                                  !.published_by = CurrentUser]
           new_draft == FlowVersion(sessions[p].flow_id,
                                    flow_versions[id].version_num + 1,
                                    "DRAFT", sessions[p].graph_schema)
           out == IF ~TriggerFlowVersionImmutableOK(flow_versions[id], published)
                  THEN RaiseFlows(500, "IntegrityError")
                  ELSE FlushFlows(200, id,
                           [flow_versions EXCEPT ![id] = published]
                           @@ (NewVersionId(flow_versions) :> new_draft))
       IN  /\ Cardinality(DOMAIN out.flow_versions) <= MaxVersions
           /\ flow_versions' = out.flow_versions
           /\ RespondFlow(p, out.code)

\* fork_flow_version, first select: the source version
ReadSource(p) ==
    /\ sessions[p].pc \in {"idle", "done"}
    /\ \E flow_id \in StoredFlows, version_num \in VersionNums :
          LET found == VersionsByNum(flow_id, version_num)
          IN  IF found = {}
              THEN RespondFlow(p, 404)
              ELSE sessions' = [sessions EXCEPT ![p] =
                       [IdleFlowOp EXCEPT
                           !.pc = "max", !.flow_id = flow_id,
                           !.graph_schema =
                               flow_versions[CHOOSE v \in found : TRUE].graph_schema]]
    /\ UNCHANGED flow_versions

\* second select: the latest version number
ReadMax(p) ==
    /\ sessions[p].pc = "max"
    /\ sessions' = [sessions EXCEPT ![p].pc = "draft",
                       ![p].max_version =
                           MaxVersionNum(DOMAIN flow_versions, sessions[p].flow_id)]
    /\ UNCHANGED flow_versions

\* third select: the draft of the flow, if any
ReadDraft(p) ==
    /\ sessions[p].pc = "draft"
    /\ LET existing_draft == DraftsOf(sessions[p].flow_id)
       IN  IF Cardinality(existing_draft) > 1 THEN RespondFlow(p, 500)
           ELSE IF existing_draft # {} THEN RespondFlow(p, 409)
           ELSE sessions' = [sessions EXCEPT ![p].pc = "fork"]
    /\ UNCHANGED flow_versions

\* the flush and commit of fork_flow_version
WriteFork(p) ==
    /\ sessions[p].pc = "fork"
    /\ LET new_draft == FlowVersion(sessions[p].flow_id, sessions[p].max_version + 1,
                                    "DRAFT", sessions[p].graph_schema)
           out == FlushFlows(200, NewVersionId(flow_versions),
                             flow_versions @@ (NewVersionId(flow_versions) :> new_draft))
       IN  /\ Cardinality(DOMAIN out.flow_versions) <= MaxVersions
           /\ flow_versions' = out.flow_versions
           /\ RespondFlow(p, out.code)

FlowRaceFrame ==
    UNCHANGED <<runs, step_execs, clock, script, lots, buffers, inventory_items,
                stock_moves, qc_tables, probe>>

BeginPublish == \E p \in Sessions : ReadDraftToPublish(p) /\ FlowRaceFrame
EndPublish == \E p \in Sessions : WritePublished(p) /\ FlowRaceFrame
BeginFork == \E p \in Sessions : ReadSource(p) /\ FlowRaceFrame
ForkMax == \E p \in Sessions : ReadMax(p) /\ FlowRaceFrame
ForkDraft == \E p \in Sessions : ReadDraft(p) /\ FlowRaceFrame
EndFork == \E p \in Sessions : WriteFork(p) /\ FlowRaceFrame

\* a draft is edited to one of the graphs of the editor's session
EditedGraphs == {EmptyGraph, StartEndGraph}

EditDraft ==
    \E flow_id \in StoredFlows, graph_schema \in EditedGraphs :
        \E id \in DraftsOf(flow_id) :
            CommitFlows(update_flow_version(flow_id, flow_versions[id].version_num,
                                            graph_schema))

NoFlowVersions == [id \in {} |-> 0]

\* no flow definition is stored yet, or flow 1 is stored with a PUBLISHED
\* first version and no draft
InitFlowRace ==
    /\ flow_versions \in {NoFlowVersions, SeedFlow("PUBLISHED")}
    /\ runs = <<>>
    /\ step_execs = {}
    /\ clock = 1
    /\ script = NoScript
    /\ lots = SeedLots
    /\ buffers = SeedBuffers
    /\ inventory_items = <<>>
    /\ stock_moves = <<>>
    /\ lot_status = SeedLotStatus
    /\ temperature_logs = <<>>
    /\ audit_events = <<>>
    /\ qc_inspections = <<>>
    /\ probe = NoProbe
    /\ sessions = [p \in Sessions |-> IdleFlowOp]

NextFlowRace ==
    \/ CreateFlowDefinition
    \/ EditDraft
    \/ BeginPublish
    \/ EndPublish
    \/ BeginFork
    \/ ForkMax
    \/ ForkDraft
    \/ EndFork

SpecFlowRace == InitFlowRace /\ [][NextFlowRace]_vars

(***************************************************************************)
(* C29: one draft per flow definition                                      *)
(***************************************************************************)
VersionsOfFlow(flow_id) ==
    {id \in DOMAIN flow_versions : flow_versions[id].flow_definition_id = flow_id}

HasDraft(flow_id) ==
    \E id \in VersionsOfFlow(flow_id) : flow_versions[id].status = "DRAFT"

AtMostOneDraft ==
    \A flow_id \in FlowIds :
        \A a, b \in VersionsOfFlow(flow_id) :
            (flow_versions[a].status = "DRAFT" /\ flow_versions[b].status = "DRAFT")
            => a = b

UniqueVersionNums ==
    \A flow_id \in FlowIds :
        \A a, b \in VersionsOfFlow(flow_id) :
            flow_versions[a].version_num = flow_versions[b].version_num => a = b

\* a fork of a stored version, served alone while the flow has a draft, is
\* answered 409 and writes nothing
ForkConflict ==
    \A flow_id \in FlowIds :
        \A id \in VersionsOfFlow(flow_id) :
            LET out == fork_flow_version(flow_id, flow_versions[id].version_num)
            IN  HasDraft(flow_id) => /\ out.code = 409
                                     /\ out.flow_versions = flow_versions

\* a fork that selects the draft of its flow while one is committed is
\* answered 409 and writes nothing
ForkStepConflict ==
    \A p \in Sessions :
        (/\ sessions[p].pc = "draft"
         /\ sessions'[p] # sessions[p]
         /\ HasDraft(sessions[p].flow_id))
        => /\ sessions'[p].pc = "done"
           /\ sessions'[p].code = 409
           /\ flow_versions' = flow_versions

\* C29: in every state reached by flow-definition creation, draft update,
\* publish and fork, concurrent publishes and forks on one flow definition
\* included, each flow definition has at most one version in DRAFT status
\* and its version numbers are unique; a fork of a version requested while a
\* draft exists is rejected with a conflict (409) and creates no version.
C29_OneDraftPerFlow ==
    /\ [](AtMostOneDraft /\ UniqueVersionNums /\ ForkConflict)
    /\ [][ForkStepConflict]_vars

\* a fork that found no draft is about to write version 2 while another
\* request has committed draft 2 since
C29_Witness ==
    \E p \in Sessions :
        /\ sessions[p].pc = "fork"
        /\ sessions[p].max_version = 1
        /\ HasDraft(sessions[p].flow_id)
        /\ MaxVersionNum(DOMAIN flow_versions, sessions[p].flow_id) = 2

(***************************************************************************)
(* C30: the stock-move ledger                                              *)
(***************************************************************************)
\* move_type and buffers of a move agree
MoveShapeOK(move, move_type) ==
    /\ move.move_type = move_type
    /\ CASE move_type = "RECEIVE" ->
                move.from_buffer_id = NULL /\ move.to_buffer_id # NULL
         [] move_type = "TRANSFER" ->
                move.from_buffer_id # NULL /\ move.to_buffer_id # NULL
         [] OTHER ->
                move.from_buffer_id # NULL /\ move.to_buffer_id = NULL

\* the outcome of a request under the key: a success on a key no stored move
\* carries appends one move of the type, every other outcome appends none
LedgerRule(out, key, move_type) ==
    IF IsSuccess(out) /\ \A i \in DOMAIN stock_moves : stock_moves[i].idempotency_key # key
    THEN /\ Len(out.stock_moves) = Len(stock_moves) + 1
         /\ SubSeq(out.stock_moves, 1, Len(stock_moves)) = stock_moves
         /\ MoveShapeOK(out.stock_moves[Len(out.stock_moves)], move_type)
         /\ out.stock_moves[Len(out.stock_moves)].idempotency_key = key
    ELSE out.stock_moves = stock_moves

MovesAppended ==
    \A key \in MoveKeys, lot_id \in LotIds, buffer_id \in BufferIds,
       quantity_kg \in Quantities :
        /\ \A run_id \in InvRunIds :
              LedgerRule(receive_to_buffer(key, lot_id, buffer_id, run_id,
                                           quantity_kg), key, "RECEIVE")
        /\ \A to_buffer_id \in BufferIds :
              LedgerRule(transfer_between_buffers(key, lot_id, buffer_id,
                                                  to_buffer_id, quantity_kg),
                         key, "TRANSFER")
        /\ LedgerRule(consume_from_buffer(key, lot_id, buffer_id, quantity_kg),
                      key, "CONSUME")
        /\ LedgerRule(ship_from_buffer(key, lot_id, buffer_id, quantity_kg),
                      key, "SHIP")

\* a step keeps every stored move as it is and adds at most one
MovesKept ==
    /\ Len(stock_moves') \in {Len(stock_moves), Len(stock_moves) + 1}
    /\ SubSeq(stock_moves', 1, Len(stock_moves)) = stock_moves

\* every stored move has the shape of its type
MovesShaped ==
    \A i \in DOMAIN stock_moves : MoveShapeOK(stock_moves[i], stock_moves[i].move_type)

\* C30: every successful receive, transfer, consume or ship that is not a
\* replay appends exactly one StockMove with the matching move_type and
\* buffer shape (RECEIVE: from_buffer_id null, to_buffer_id set; TRANSFER:
\* both set; CONSUME and SHIP: from_buffer_id set, to_buffer_id null);
\* rejected and replayed requests append none; no operation modifies or
\* removes a stored StockMove.
C30_StockMoveLedger == [](MovesAppended /\ MovesShaped) /\ [][MovesKept]_vars

\* a RECEIVE and a move out of the buffer are stored
C30_Witness ==
    /\ Len(stock_moves) = 2
    /\ stock_moves[1].move_type = "RECEIVE"
    /\ stock_moves[1].from_buffer_id = NULL
    /\ stock_moves[2].move_type \in {"TRANSFER", "CONSUME", "SHIP"}
    /\ stock_moves[2].from_buffer_id = stock_moves[1].to_buffer_id
    /\ stock_moves[2].idempotency_key # stock_moves[1].idempotency_key

(***************************************************************************)
(* SpecFineStock: the inventory endpoints with quantities as the request   *)
(* schemas admit them.  quantity_kg is a Decimal with gt=0 and no limit on *)
(* its decimal places; the quantity_kg columns are Numeric(10, 2), and the *)
(* database rounds a value of a finer scale when it stores it.  In this    *)
(* specification a quantity counts thousandths of a kg.                    *)
(***************************************************************************)
\* 0.01 kg, the storage unit of Numeric(10, 2), in thousandths of a kg
Cent == 10

\* variant: the column keeps the scale of the value it is given
NumericUnscaled(thousandths) == thousandths

\* a value as a Numeric(10, 2) column stores it: rounded to the nearest
\* 0.01, ties away from zero
Numeric102(thousandths) == ((2 * thousandths + Cent) \div (2 * Cent)) * Cent

\* quantities of requests: below, at and between multiples of 0.01 kg
FineQuantities == {4, 6, Cent, Cent + 4}

\* the rows as the tables store them
StoredQuantities(rows) ==
    [i \in DOMAIN rows |-> [rows[i] EXCEPT !.quantity_kg = Numeric102(@)]]

\* the transaction of an inventory handler ends: the rows it wrote are stored
CommitStored(out) ==
    /\ Len(out.stock_moves) <= MaxMoves
    /\ inventory_items' = StoredQuantities(out.inventory_items)
    /\ stock_moves' = StoredQuantities(out.stock_moves)
    /\ UNCHANGED <<flow_versions, runs, step_execs, lots, buffers, clock, script>>
    /\ UNCHANGED <<qc_tables, probe, sessions>>

ReceiveFine ==
    \E key \in StockKeys, lot_id \in LotIds, buffer_id \in BufferIds,
       run_id \in InvRunIds, quantity_kg \in FineQuantities :
        CommitStored(receive_to_buffer(key, lot_id, buffer_id, run_id, quantity_kg))

TransferFine ==
    \E key \in StockKeys, lot_id \in LotIds, from_buffer_id \in BufferIds,
       to_buffer_id \in BufferIds, quantity_kg \in FineQuantities :
        CommitStored(transfer_between_buffers(key, lot_id, from_buffer_id,
                                              to_buffer_id, quantity_kg))

ConsumeFine ==
    \E key \in StockKeys, lot_id \in LotIds, buffer_id \in BufferIds,
       quantity_kg \in FineQuantities :
        CommitStored(consume_from_buffer(key, lot_id, buffer_id, quantity_kg))

ShipFine ==
    \E key \in StockKeys, lot_id \in LotIds, buffer_id \in BufferIds,
       quantity_kg \in FineQuantities :
        CommitStored(ship_from_buffer(key, lot_id, buffer_id, quantity_kg))

NextFineStock == ReceiveFine \/ TransferFine \/ ConsumeFine \/ ShipFine

SpecFineStock == InitInventory /\ [][NextFineStock]_vars

(***************************************************************************)
(* C31: open inventory items hold a positive quantity                      *)
(***************************************************************************)
OpenItemsPositive ==
    \A i \in DOMAIN inventory_items :
        /\ inventory_items[i].quantity_kg >= 0
        /\ inventory_items[i].exited_at = NULL => inventory_items[i].quantity_kg > 0

\* a step that takes from an open item less than it holds leaves it open
\* with the rest, a step that takes all it holds closes it
TakeKeepsOrCloses ==
    \A i \in DOMAIN inventory_items :
        (inventory_items[i].exited_at = NULL /\ inventory_items'[i] # inventory_items[i])
        => \/ /\ inventory_items'[i].exited_at # NULL
              /\ inventory_items'[i].quantity_kg = inventory_items[i].quantity_kg
           \/ /\ inventory_items'[i].exited_at = NULL
              /\ inventory_items'[i].quantity_kg > 0
              /\ inventory_items'[i].quantity_kg < inventory_items[i].quantity_kg

\* C31: in every reachable state every open InventoryItem (exited_at null)
\* has quantity_kg > 0: a transfer, consume or ship of less than the quantity
\* of the item decrements it and keeps it open, one of exactly its quantity
\* closes it instead of leaving an open item of quantity zero, and no item
\* ever has a negative quantity.
C31_OpenItemsPositive == []OpenItemsPositive /\ [][TakeKeepsOrCloses]_vars

(***************************************************************************)
(* C32: the buffers a lot is open in                                       *)
(***************************************************************************)
\* C32: in every state reached by receive, transfer, consume and ship a lot
\* never has open InventoryItems in more than one buffer at the same time.
C32_LotInOneBuffer ==
    \A i, j \in DOMAIN inventory_items :
        (/\ inventory_items[i].exited_at = NULL
         /\ inventory_items[j].exited_at = NULL
         /\ inventory_items[i].lot_id = inventory_items[j].lot_id)
        => inventory_items[i].buffer_id = inventory_items[j].buffer_id

(***************************************************************************)
(* C33: frame of hold and resume                                           *)
(***************************************************************************)
\* a successful hold writes HOLD over RUNNING and nothing else, a successful
\* resume RUNNING over HOLD and nothing else
HoldResumeOutcome ==
    \A run_id \in RunIds :
        LET held == hold_run(run_id)
            resumed == resume_run(run_id)
        IN  /\ IsSuccess(held) =>
                  /\ runs[run_id].status = "RUNNING"
                  /\ held.runs = [runs EXCEPT ![run_id].status = "HOLD"]
                  /\ held.step_execs = step_execs
            /\ IsSuccess(resumed) =>
                  /\ runs[run_id].status = "HOLD"
                  /\ resumed.runs = [runs EXCEPT ![run_id].status = "RUNNING"]
                  /\ resumed.step_execs = step_execs

\* a step between RUNNING and HOLD changes the status of the run alone
StatusAloneChanged ==
    \A i \in DOMAIN runs :
        (/\ i \in DOMAIN runs'
         /\ {runs[i].status, runs'[i].status} = {"RUNNING", "HOLD"})
        => /\ runs' = [runs EXCEPT ![i].status = runs'[i].status]
           /\ step_execs' = step_execs

\* C33: a successful hold changes only the status of the run (RUNNING to
\* HOLD) and a successful resume changes only its status (HOLD to RUNNING):
\* current_step_index, the timestamps and every RunStepExecution row, the
\* IN_PROGRESS one included, are untouched, so a hold followed by a resume
\* restores the state before the hold.
C33_HoldResumeFrame == []HoldResumeOutcome /\ [][StatusAloneChanged]_vars

\* the run was held and resumed at a later time than it was started, and is
\* RUNNING with its current step in progress
C33_Witness ==
    /\ script.pairs > 0
    /\ ~script.held
    /\ script.ok
    /\ script.run_id \in DOMAIN runs
    /\ runs[script.run_id].status = "RUNNING"
    /\ runs[script.run_id].current_step_index > 0
    /\ runs[script.run_id].started_at < clock
    /\ \E s \in step_execs :
          /\ s.run_id = script.run_id
          /\ s.step_index = runs[script.run_id].current_step_index
          /\ s.status = "IN_PROGRESS"

(***************************************************************************)
(* Genealogy queries (genealogy.py, traceability.py).  The lot_genealogy   *)
(* table is a sequence of link rows in the order the selects return them;  *)
(* the table has no unique constraint, so a link may be stored twice.      *)
(***************************************************************************)
MaxGenLots == 4
MaxLinks == 3

GenLots == 1..MaxGenLots
MissingLot == MaxGenLots + 1

LotGenealogy(parent_lot_id, child_lot_id) ==
    [parent_lot_id |-> parent_lot_id, child_lot_id |-> child_lot_id]

\* the lot a link is selected by, and the lot it leads to
NearLot(link, direction) ==
    IF direction = "backward" THEN link.child_lot_id ELSE link.parent_lot_id
FarLot(link, direction) ==
    IF direction = "backward" THEN link.parent_lot_id ELSE link.child_lot_id

InNodes(nodes, id) == \E i \in DOMAIN nodes : nodes[i] = id

\* variant: no lot counts as collected
NeverCollected(nodes, id) == FALSE

\* "link.parent not in nodes" / "link.parent_lot_id not in all_nodes", negated
Collected(nodes, id) == InNodes(nodes, id)

RECURSIVE CollectLevel(_, _, _, _, _)
\* "for link in level_links": the lots of the level that are not collected
\* yet are appended to nodes and make up the ids of the next level
CollectLevel(level_links, direction, i, nodes, ids) ==
    IF i > Len(level_links) THEN [nodes |-> nodes, ids |-> ids]
    ELSE LET far == FarLot(level_links[i], direction)
         IN  IF far # NULL /\ ~Collected(nodes, far)
             THEN CollectLevel(level_links, direction, i + 1,
                               Append(nodes, far), ids \cup {far})
             ELSE CollectLevel(level_links, direction, i + 1, nodes, ids)

RECURSIVE TraceLevels(_, _, _, _, _, _)
\* "for _ in range(depth)": one select per level; fetches counts the selects
TraceLevels(links, direction, current_ids, nodes, remaining, fetches) ==
    IF remaining = 0 \/ current_ids = {}
    THEN [nodes |-> nodes, fetches |-> fetches]
    ELSE LET InLevel(link) == NearLot(link, direction) \in current_ids
             level_links == SelectSeq(links, InLevel)
             level == CollectLevel(level_links, direction, 1, nodes, {})
         IN  IF level_links = <<>>
             THEN [nodes |-> nodes, fetches |-> fetches + 1]
             ELSE TraceLevels(links, direction, level.ids, level.nodes,
                              remaining - 1, fetches + 1)

GenealogyRaise(code) == [code |-> code, nodes |-> <<>>, back |-> 0, forth |-> 0]

get_parent_lots(links, lot_id, depth) ==
    IF depth < 1 \/ depth > 10 THEN GenealogyRaise(400)
    ELSE IF lot_id \notin DOMAIN lots THEN GenealogyRaise(404)
    ELSE LET traced == TraceLevels(links, "backward", {lot_id}, <<>>, depth, 0)
         IN  [code |-> 200, nodes |-> traced.nodes, back |-> traced.fetches,
              forth |-> 0]

get_child_lots(links, lot_id, depth) ==
    IF depth < 1 \/ depth > 10 THEN GenealogyRaise(400)
    ELSE IF lot_id \notin DOMAIN lots THEN GenealogyRaise(404)
    ELSE LET traced == TraceLevels(links, "forward", {lot_id}, <<>>, depth, 0)
         IN  [code |-> 200, nodes |-> traced.nodes, back |-> 0,
              forth |-> traced.fetches]

\* all_nodes is shared by the two traces
get_full_genealogy_tree(links, lot_id, depth) ==
    IF depth < 1 \/ depth > 5 THEN GenealogyRaise(400)
    ELSE IF lot_id \notin DOMAIN lots THEN GenealogyRaise(404)
    ELSE LET parents == TraceLevels(links, "backward", {lot_id}, <<>>, depth, 0)
             children == TraceLevels(links, "forward", {lot_id}, parents.nodes,
                                     depth, 0)
         IN  [code |-> 200, nodes |-> children.nodes, back |-> parents.fetches,
              forth |-> children.fetches]

RECURSIVE VisitRelated(_, _, _, _, _, _, _)
\* "for related_lot, quantity in result.all()"
VisitRelated(related, direction, i, depth, visited, results, queue) ==
    IF i > Len(related) THEN [results |-> results, queue |-> queue]
    ELSE LET id == FarLot(related[i], direction)
         IN  IF id \notin visited
             THEN VisitRelated(related, direction, i + 1, depth, visited,
                               Append(results, [id |-> id, depth |-> depth + 1]),
                               Append(queue, <<id, depth + 1>>))
             ELSE VisitRelated(related, direction, i + 1, depth, visited,
                               results, queue)

RECURSIVE TraverseQueue(_, _, _, _, _, _)
\* "while queue": a lot is marked visited when it is taken from the queue
TraverseQueue(links, direction, max_depth, queue, visited, results) ==
    IF queue = <<>> THEN results
    ELSE LET current_id == Head(queue)[1]
             depth == Head(queue)[2]
             Joined(link) == /\ NearLot(link, direction) = current_id
                             /\ FarLot(link, direction) \in DOMAIN lots
             step == VisitRelated(SelectSeq(links, Joined), direction, 1, depth,
                                  visited \cup {current_id}, results, Tail(queue))
         IN  IF depth >= max_depth \/ current_id \in visited
             THEN TraverseQueue(links, direction, max_depth, Tail(queue),
                                visited, results)
             ELSE TraverseQueue(links, direction, max_depth, step.queue,
                                visited \cup {current_id}, step.results)

traverse_genealogy(links, root_lot_id, max_depth, direction) ==
    TraverseQueue(links, direction, max_depth, <<<<root_lot_id, 0>>>>, {}, <<>>)

(***************************************************************************)
(* SpecGenealogy: one query against a table of up to MaxLinks links over   *)
(* MaxGenLots lots.  Every edge relation over the lots is a table, so the  *)
(* query starts from lot 1 or from a lot that is not stored.               *)
(***************************************************************************)
LinkPairs == {LotGenealogy(p, c) : p \in GenLots, c \in GenLots}

LinkRank(link) == link.parent_lot_id * (MaxGenLots + 1) + link.child_lot_id

\* the tables, rows in one order of the orders a select may return them in
LinkTables ==
    UNION {{t \in [1..n -> LinkPairs] :
                \A i \in 1..(n - 1) : LinkRank(t[i]) <= LinkRank(t[i + 1])}
           : n \in 0..MaxLinks}

\* depths at and around the limits of the queries
QueryDepths == {0, 1, 2, 5, 6, 10, 11}

GenealogyQueries == {"parents", "children", "tree", "ancestors", "descendants"}

InitGenealogy ==
    /\ flow_versions = SeedFlowVersions
    /\ runs = <<>>
    /\ step_execs = {}
    /\ clock = 1
    /\ script = NoScript
    /\ lots = [id \in GenLots |-> [lot_type |-> "DEB"]]
    /\ buffers = SeedBuffers
    /\ inventory_items = <<>>
    /\ stock_moves = <<>>
    /\ lot_status = SeedLotStatus
    /\ temperature_logs = <<>>
    /\ audit_events = <<>>
    /\ qc_inspections = <<>>
    /\ sessions = NoSessions
    /\ probe \in [links : LinkTables, lot_id : {1, MissingLot}, depth : QueryDepths,
                  called : {"none"}, code : {0}, nodes : {<<>>}, back : {0},
                  forth : {0}, results : {<<>>}]

GenealogyFrame ==
    UNCHANGED <<flow_versions, runs, step_execs, clock, script, lots, buffers,
                inventory_items, stock_moves, qc_tables, sessions>>

\* the response of a query is noted
Answer(query, out) ==
    /\ probe.called = "none"
    /\ probe' = [probe EXCEPT !.called = query, !.code = out.code,
                              !.nodes = out.nodes, !.back = out.back,
                              !.forth = out.forth]
    /\ GenealogyFrame

GetParentLots ==
    Answer("parents", get_parent_lots(probe.links, probe.lot_id, probe.depth))

GetChildLots ==
    Answer("children", get_child_lots(probe.links, probe.lot_id, probe.depth))

GetFullGenealogyTree ==
    Answer("tree", get_full_genealogy_tree(probe.links, probe.lot_id, probe.depth))

\* _get_all_ancestors / _get_all_descendants of a stored lot
TraverseGenealogy ==
    \E direction \in {"backward", "forward"} :
        /\ probe.called = "none"
        /\ probe.lot_id \in DOMAIN lots
        /\ probe' = [probe EXCEPT
                        !.called = IF direction = "backward" THEN "ancestors"
                                   ELSE "descendants",
                        !.code = 200,
                        !.results = traverse_genealogy(probe.links, probe.lot_id,
                                                       probe.depth, direction)]
        /\ GenealogyFrame

NextGenealogy ==
    \/ GetParentLots
    \/ GetChildLots
    \/ GetFullGenealogyTree
    \/ TraverseGenealogy

SpecGenealogy == InitGenealogy /\ [][NextGenealogy]_vars

(***************************************************************************)
(* C34: depth-limited parents and children queries on a chain              *)
(***************************************************************************)
\* the links of the table, each once
LinkSet(links) == {links[i] : i \in DOMAIN links}

\* the chain of depth D from lot 1: lot k + 1 is the parent (backward) or
\* the child (forward) of lot k
Chain(D, direction) ==
    {IF direction = "backward" THEN LotGenealogy(k + 1, k)
     ELSE LotGenealogy(k, k + 1) : k \in 1..D}

Least(a, b) == IF a < b THEN a ELSE b

\* the answer to a query of depth M on a chain of depth D, links stored
\* twice included: the lots of the levels 1..min(D, M), each once
ChainAnswered(query, direction) ==
    \A D \in 0..(MaxGenLots - 1) :
        (/\ probe.called = query
         /\ probe.lot_id = 1
         /\ probe.depth \in 1..10
         /\ LinkSet(probe.links) = Chain(D, direction))
        => /\ probe.code = 200
           /\ {probe.nodes[i] : i \in DOMAIN probe.nodes}
                  = {k + 1 : k \in 1..Least(D, probe.depth)}
           /\ Len(probe.nodes) = Least(D, probe.depth)

\* a depth outside the limits of the query is refused
DepthRefused ==
    /\ (probe.called \in {"parents", "children"} /\ probe.depth \notin 1..10)
           => probe.code = 400 /\ probe.nodes = <<>>
    /\ (probe.called = "tree" /\ probe.depth \notin 1..5)
           => probe.code = 400 /\ probe.nodes = <<>>

\* C34: for a genealogy chain of depth D and a parents or children query
\* with depth M (1 <= M <= 10) the returned nodes are exactly the lots at the
\* levels 1..min(D, M) from the query lot, each exactly once, also when the
\* table holds a link twice; a depth outside 1..10 (1..5 for the tree query)
\* is rejected.
C34_ChainLevels ==
    /\ ChainAnswered("parents", "backward")
    /\ ChainAnswered("children", "forward")
    /\ DepthRefused

\* the parents of lot 1 were asked for with depth 1 on the chain 1, 2, 3
\* whose first link is stored twice: lot 2 is returned once
C34_Witness ==
    /\ probe.called = "parents"
    /\ probe.depth = 1
    /\ Len(probe.links) = 3
    /\ LinkSet(probe.links) = Chain(2, "backward")
    /\ probe.links[1] = probe.links[2]
    /\ probe.nodes = <<2>>

\* ---------------------------------------------------------------------
\* Arbitrary link tables: cycles, self-links, diamonds, duplicate links
\* ---------------------------------------------------------------------

NoRepeats(ids) == \A i, j \in DOMAIN ids : i # j => ids[i] # ids[j]

\* the queries of genealogy.py that were answered with a tree
TreeAnswered ==
    /\ probe.called \in {"parents", "children", "tree"}
    /\ probe.code = 200

\* C38: for any set of links, cycles, self-links and duplicate links
\* included, the parents, children and tree queries fetch at most `depth`
\* levels per direction, and the returned nodes hold no lot twice and do not
\* hold the starting lot.
C38_NoLotTwice ==
    TreeAnswered
        => /\ probe.back <= probe.depth
           /\ probe.forth <= probe.depth
           /\ NoRepeats(probe.nodes)
           /\ ~InNodes(probe.nodes, probe.lot_id)

\* the lots within k links of the root in the direction of the traversal
RECURSIVE Within(_, _, _, _)
Within(links, direction, root, k) ==
    IF k = 0 THEN {root}
    ELSE LET near == Within(links, direction, root, k - 1)
         IN  near \cup {FarLot(links[i], direction) :
                          i \in {j \in DOMAIN links :
                                    NearLot(links[j], direction) \in near}}

\* the breadth-first distance of a lot from the root, MaxGenLots when the
\* lot is not reachable
Distance(links, direction, root, id) ==
    LET ks == {k \in 0..MaxGenLots : id \in Within(links, direction, root, k)}
    IN  IF ks = {} THEN MaxGenLots
        ELSE CHOOSE k \in ks : \A other \in ks : k <= other

TraversalDirection == IF probe.called = "ancestors" THEN "backward" ELSE "forward"

\* C39: _traverse_genealogy returns each related lot at most once, with its
\* breadth-first distance from the root as depth (between 1 and max_depth),
\* and never the root, also with a diamond, duplicate links or a cycle.
C39_EachLotOnce ==
    probe.called \in {"ancestors", "descendants"}
        => /\ \A i, j \in DOMAIN probe.results :
                  i # j => probe.results[i].id # probe.results[j].id
           /\ \A i \in DOMAIN probe.results :
                  /\ probe.results[i].id # probe.lot_id
                  /\ probe.results[i].depth \in 1..probe.depth
                  /\ probe.results[i].depth
                         = Distance(probe.links, TraversalDirection,
                                    probe.lot_id, probe.results[i].id)

(***************************************************************************)
(* C35: the step rows of a run follow its status and its step index        *)
(***************************************************************************)
RowsAt(run_id, idx) == {s \in step_execs : s.run_id = run_id /\ s.step_index = idx}

StepClosed(s) == s.status = "COMPLETED" /\ s.completed_at # NULL

\* one row for each index 0..k and none beyond, those before k closed
RowsUpTo(run_id, k) ==
    /\ \A idx \in 0..k : Cardinality(RowsAt(run_id, idx)) = 1
    /\ \A s \in StepRows(step_execs, run_id) : s.step_index \in 0..k
    /\ \A s \in StepRows(step_execs, run_id) : s.step_index < k => StepClosed(s)

StepRowsFollowRun(run_id) ==
    LET run == runs[run_id]
        rows == StepRows(step_execs, run_id)
    IN  /\ run.status = "IDLE" => rows = {}
        /\ run.status \in {"RUNNING", "HOLD"} =>
              /\ RowsUpTo(run_id, run.current_step_index)
              /\ \A s \in RowsAt(run_id, run.current_step_index) :
                    s.status = "IN_PROGRESS"
        /\ run.status = "COMPLETED" =>
              /\ RowsUpTo(run_id, FinalStep)
              /\ \A s \in rows : s.status = "COMPLETED"
        /\ \A idx \in 0..FinalStep : Cardinality(RowsAt(run_id, idx)) <= 1
        /\ Cardinality({s \in rows : s.status = "IN_PROGRESS"}) <= 1

\* C35: in every state reached through the run endpoints an IDLE run has
\* no step rows; a RUNNING or HOLD run at step index k has exactly one row
\* for each index 0..k, those of 0..k-1 COMPLETED with completed_at set and
\* the one of k IN_PROGRESS; a COMPLETED run has the rows 0..10, all
\* COMPLETED; no (run, step_index) has two rows and no run has two rows
\* IN_PROGRESS.
C35_StepRowsFollowRun == \A run_id \in DOMAIN runs : StepRowsFollowRun(run_id)

\* one run was completed and another is on hold past its first step
C35_Witness ==
    \E a, b \in DOMAIN runs :
        /\ runs[a].status = "COMPLETED"
        /\ Cardinality(StepRows(step_execs, a)) = FinalStep + 1
        /\ runs[b].status = "HOLD"
        /\ runs[b].current_step_index > 0

(***************************************************************************)
(* C36: the open items of a lot in a buffer                                *)
(***************************************************************************)
OpenItemsOf(lot_id, buffer_id) ==
    {i \in DOMAIN inventory_items :
        /\ inventory_items[i].lot_id = lot_id
        /\ inventory_items[i].buffer_id = buffer_id
        /\ inventory_items[i].exited_at = NULL}

\* C36: in every state reached by receive, transfer, consume and ship a
\* (lot, buffer) pair has at most one open InventoryItem, so the lookup of
\* the source item never finds two; two receives of a lot into one buffer,
\* or a partial transfer within one buffer, leave no second open item.
C36_OneOpenItemPerPair ==
    \A lot_id \in LotIds, buffer_id \in BufferIds :
        Cardinality(OpenItemsOf(lot_id, buffer_id)) <= 1

(***************************************************************************)
(* SpecFlowApi: flow definitions created, edited, published and forked     *)
(* through the endpoints alone, from an empty table                        *)
(***************************************************************************)
InitFlowApi ==
    /\ flow_versions = NoFlowVersions
    /\ runs = <<>>
    /\ step_execs = {}
    /\ clock = 1
    /\ script = NoScript
    /\ lots = SeedLots
    /\ buffers = SeedBuffers
    /\ inventory_items = <<>>
    /\ stock_moves = <<>>
    /\ lot_status = SeedLotStatus
    /\ temperature_logs = <<>>
    /\ audit_events = <<>>
    /\ qc_inspections = <<>>
    /\ probe = NoProbe
    /\ sessions = NoSessions

NextFlowApi ==
    \/ CreateFlowDefinition
    \/ UpdateFlowVersion
    \/ PublishFlowVersion
    \/ ForkFlowVersion

SpecFlowApi == InitFlowApi /\ [][NextFlowApi]_vars

(***************************************************************************)
(* C37: the draft of a flow definition                                     *)
(***************************************************************************)
DraftVersions(flow_id) ==
    {id \in VersionsOfFlow(flow_id) : flow_versions[id].status = "DRAFT"}

\* the flow has one draft, and no version of the flow has a higher number
OneLatestDraft(flow_id) ==
    /\ Cardinality(DraftVersions(flow_id)) = 1
    /\ \A d \in DraftVersions(flow_id), id \in VersionsOfFlow(flow_id) :
          flow_versions[id].version_num <= flow_versions[d].version_num

\* a fork request is answered with the conflict when it names a stored
\* version, and writes nothing
ForkRefused(flow_id, version_num) ==
    LET out == fork_flow_version(flow_id, version_num)
    IN  /\ ~IsSuccess(out)
        /\ out.flow_versions = flow_versions
        /\ VersionsByNum(flow_id, version_num) # {} => out.code = 409

\* C37: in every state reached through create_flow_definition,
\* update_flow_version, publish_flow_version and fork_flow_version each
\* flow definition has exactly one DRAFT version, which carries the highest
\* version_num of the definition; so no fork request succeeds: it is
\* answered with the draft-exists conflict.
C37_OneLatestDraft ==
    /\ \A flow_id \in StoredFlows : OneLatestDraft(flow_id)
    /\ \A flow_id \in FlowIds, version_num \in VersionNums :
          ForkRefused(flow_id, version_num)

\* a flow whose first version was published has its draft at version 2
C37_Witness ==
    \E flow_id \in StoredFlows :
        /\ \E id \in VersionsOfFlow(flow_id) :
              /\ flow_versions[id].status = "PUBLISHED"
              /\ flow_versions[id].version_num = 1
        /\ \E d \in DraftVersions(flow_id) : flow_versions[d].version_num = 2
        /\ fork_flow_version(flow_id, 1).code = 409

(***************************************************************************)
(* SpecReplay: runs are created and the stock of one lot is moved, under    *)
(* arbitrary request sequences with fresh and with used idempotency keys   *)
(***************************************************************************)
\* the inventory requests, all about one lot
ReceiveLot ==
    \E key \in StockKeys, buffer_id \in BufferIds, run_id \in InvRunIds :
        \E quantity_kg \in Quantities :
            CommitInv(receive_to_buffer(key, RaceLot, buffer_id, run_id, quantity_kg))

TransferLot ==
    \E key \in StockKeys, from_buffer_id \in BufferIds, to_buffer_id \in BufferIds :
        \E quantity_kg \in Quantities :
            CommitInv(transfer_between_buffers(key, RaceLot, from_buffer_id,
                                               to_buffer_id, quantity_kg))

ConsumeLot ==
    \E key \in StockKeys, buffer_id \in BufferIds, quantity_kg \in Quantities :
        CommitInv(consume_from_buffer(key, RaceLot, buffer_id, quantity_kg))

ShipLot ==
    \E key \in StockKeys, buffer_id \in BufferIds, quantity_kg \in Quantities :
        CommitInv(ship_from_buffer(key, RaceLot, buffer_id, quantity_kg))

NextReplay ==
    /\ \/ CreateRun
       \/ ReceiveLot
       \/ TransferLot
       \/ ConsumeLot
       \/ ShipLot
    /\ UNCHANGED <<clock, script>>

SpecReplay == InitInventory /\ [][NextReplay]_vars

(***************************************************************************)
(* C40: the idempotency lookup comes before every other precondition       *)
(***************************************************************************)
\* the request is answered with the stored run and nothing is written
ReturnsRun(out, i) == out.code = 201 /\ out.body = i /\ Untouched(out)

\* the request is answered with the stored move and nothing is written
ReturnsMove(out, i) == out.code = 201 /\ out.body = i /\ UntouchedInv(out)

\* a create_run under the key of a stored run, whatever flow version it names
RunLookupFirst ==
    \A i \in DOMAIN runs, fv \in FlowVersionIds :
        ReturnsRun(create_run(runs[i].idempotency_key, fv), i)

\* an inventory request under the key of a stored move, whatever its
\* operation, lot, buffers, run and quantity
MoveLookupFirst ==
    \A i \in DOMAIN stock_moves :
        LET key == stock_moves[i].idempotency_key
        IN  \A lot_id \in LotIds, buffer_id \in BufferIds, quantity_kg \in Quantities :
               /\ ReturnsMove(consume_from_buffer(key, lot_id, buffer_id,
                                                  quantity_kg), i)
               /\ ReturnsMove(ship_from_buffer(key, lot_id, buffer_id,
                                               quantity_kg), i)
               /\ \A run_id \in InvRunIds :
                     ReturnsMove(receive_to_buffer(key, lot_id, buffer_id, run_id,
                                                   quantity_kg), i)
               /\ \A to_buffer_id \in BufferIds :
                     ReturnsMove(transfer_between_buffers(key, lot_id, buffer_id,
                                                          to_buffer_id,
                                                          quantity_kg), i)

\* C40: the idempotency lookup is the first precondition: a create_run whose
\* key a stored run carries returns that run also when it names another, a
\* missing or a not PUBLISHED flow version, and an inventory request whose
\* key a stored StockMove carries returns that move also when it is of
\* another operation, names another lot or buffer, or would fail the buffer
\* or quantity checks; nothing is written.
C40_LookupFirst == RunLookupFirst /\ MoveLookupFirst

\* a created run is returned to a create naming a missing version, and a
\* stored RECEIVE is returned to a consume of a lot that is in no buffer;
\* under a fresh key both requests are refused
C40_Witness ==
    /\ \E i \in DOMAIN runs, key \in RunKeys \ UsedRunKeys :
          /\ runs[i] # SeedRun
          /\ create_run(runs[i].idempotency_key, 5).body = i
          /\ create_run(key, 5).code = 404
    /\ \E i \in DOMAIN stock_moves, key \in FreshStockKeys, lot_id \in LotIds :
          /\ stock_moves[i].move_type = "RECEIVE"
          /\ lot_id # stock_moves[i].lot_id
          /\ \A b \in BufferIds : ActiveItems(lot_id, b) = {}
          /\ consume_from_buffer(stock_moves[i].idempotency_key, lot_id,
                                 stock_moves[i].to_buffer_id, MaxQty).body = i
          /\ consume_from_buffer(key, lot_id, stock_moves[i].to_buffer_id,
                                 MaxQty).code = 400

====
